---- MODULE Spec2Model ----
(***************************************************************************)
(* PR activity aggregation and scoring engine of LICORNE_2026 (GraphQL     *)
(* GitHubService): the paginated runs getLeaderboard, getRescueLeaderboard,*)
(* fetchStalePRs and getTop10MostNeglectedPRs.                             *)
(*                                                                         *)
(* One run of one operation is modelled.  The run advances from one await  *)
(* of this.graphql(...) to the next; inside a page the for-loops over the  *)
(* PR nodes and over their review and comment nodes advance one node per   *)
(* step, the node being whatever the source returned at that place.        *)
(* Timestamps are milliseconds since a common origin (Date.getTime()).     *)
(***************************************************************************)
EXTENDS Integers, Sequences, FiniteSets, TLC

VARIABLES
    op,             \* the operation running the page loop (name) and its
                    \* arguments; the method that called it and its limit
    pc,             \* position of the run
    cursor,         \* let cursor: string | null
    pagesFetched,   \* let pagesFetched
    requests,       \* calls of this.graphql made by the run
    res,            \* <<>> or <<the pageInfo last read>>
    pr,             \* the PR node being iterated
    node,           \* the review or comment node being iterated
    reviewedUsers,  \* const reviewedUsers = new Set<string>()
    commentedUsers, \* const commentedUsers = new Set<string>()
    leaderboard,    \* const leaderboard = new Map(), in insertion order
    stalePRs,       \* const stalePRs: StalePR[]
    now,            \* const now = new Date() of fetchStalePRs, then that
                    \* of getTop10MostNeglectedPRs once the fetch resolved
    result,         \* what the promise of the run settles to
    served,         \* what the source has returned to the run so far:
                    \* PR nodes, review and comment nodes, the hasNextPage
                    \* of each page, the error of the rejected request
    alone,          \* history: the accumulators, cursor and page counter
                    \* the run has when nothing but its own responses
                    \* reaches them
    other,          \* a second run on the same instance, suspended at an
                    \* await (or not started, or settled): its locals
    localStorage,   \* the browser's localStorage, by key
    ledger,         \* history of syncXP: per XP action the awards granted,
                    \* per counter the largest value GitHub reported
    rest            \* the run of a method of the REST GithubService: its
                    \* position and locals

vars == <<op, pc, cursor, pagesFetched, requests, res, pr, node,
          reviewedUsers, commentedUsers, leaderboard, stalePRs, now, result,
          served, alone, other, localStorage, ledger, rest>>

----------------------------------------------------------------------------
(* Bounds of the explored inputs *)

\* PR nodes the source returns in one run
MaxPRs == 2
\* review and comment nodes the source returns in one run
MaxEvents == 2
\* only the first DataPages responses of a run carry PR nodes
DataPages == 2

----------------------------------------------------------------------------
(* Inputs *)

\* author: null (deleted account)
Null == "null"
Users == {"alice", "bob"}
Authors == Users \cup {Null}
\* review.state: the three known dispositions and one outside them
ReviewStates == {"APPROVED", "CHANGES_REQUESTED", "COMMENTED", "DISMISSED"}
\* pageInfo.endCursor of the first, second, ... response of a run
Cursors == <<"c1", "c2", "c3", "c4", "c5", "c6", "c7">>

MsPerHour == 1000 * 60 * 60
MsPerDay == 1000 * 60 * 60 * 24

\* pr.createdAt values
CreatedTimes == {MsPerDay}
\* review.submittedAt - pr.createdAt and comment.createdAt - pr.createdAt
AgeChoices(timeUnit) ==
    IF timeUnit = "hours"
    THEN {MsPerHour \div 2, 2 * MsPerHour, 3 * MsPerHour, 6 * MsPerHour}
    ELSE {2 * MsPerDay, 7 * MsPerDay, 14 * MsPerDay, 15 * MsPerDay}

----------------------------------------------------------------------------
(* Map<string, Stats> as the sequence of its values in insertion order *)

Has(map, username) == \E i \in 1..Len(map) : map[i].username = username

IndexOf(map, username) ==
    CHOOSE i \in 1..Len(map) : map[i].username = username

NewReviewerStats(username) ==
    [username |-> username, reviewCount |-> 0, approvals |-> 0,
     changesRequested |-> 0, comments |-> 0, totalComments |-> 0,
     reactions |-> 0, points |-> 0]

\* the map after getOrCreateReviewer(map, username)
getOrCreateReviewer(map, username) ==
    IF Has(map, username) THEN map
    ELSE Append(map, NewReviewerStats(username))

NewRescuerStats(username) ==
    [username |-> username, rescueCount |-> 0, criticalRescues |-> 0,
     urgentRescues |-> 0, warningRescues |-> 0, approvals |-> 0,
     changesRequested |-> 0, comments |-> 0, points |-> 0]

\* the map after getOrCreateRescuer(map, username)
getOrCreateRescuer(map, username) ==
    IF Has(map, username) THEN map
    ELSE Append(map, NewRescuerStats(username))

----------------------------------------------------------------------------
(* Array.prototype.sort((a, b) => b.points - a.points): stable, descending *)

RECURSIVE InsertByPoints(_, _)
InsertByPoints(sorted, x) ==
    IF sorted = <<>> THEN <<x>>
    ELSE IF Head(sorted).points >= x.points
         THEN <<Head(sorted)>> \o InsertByPoints(Tail(sorted), x)
         ELSE <<x>> \o sorted

\* mutant: the values of the map are returned in insertion order
ValuesInInsertionOrder(arr) == arr

RECURSIVE SortByPoints(_)
SortByPoints(arr) ==
    IF arr = <<>> THEN <<>>
    ELSE InsertByPoints(SortByPoints(SubSeq(arr, 1, Len(arr) - 1)),
                        arr[Len(arr)])

----------------------------------------------------------------------------
(* getLeaderboard: the body of the loop over pr.reviews.nodes *)

\* mutant: a switch with `case 'COMMENTED'` in place of `default`
ReviewerAfterReviewNoDefault(stats, state) ==
    LET counted == [stats EXCEPT !.reviewCount = @ + 1] IN
    CASE state = "APPROVED" ->
            [counted EXCEPT !.approvals = @ + 1, !.points = @ + 50]
      [] state = "CHANGES_REQUESTED" ->
            [counted EXCEPT !.changesRequested = @ + 1, !.points = @ + 30]
      [] state = "COMMENTED" ->
            [counted EXCEPT !.comments = @ + 1, !.points = @ + 10]
      [] OTHER -> counted

\* switch (review.state) of getLeaderboard, after stats.reviewCount++
ReviewerAfterReview(stats, state) ==
    LET counted == [stats EXCEPT !.reviewCount = @ + 1] IN
    CASE state = "APPROVED" ->
            [counted EXCEPT !.approvals = @ + 1, !.points = @ + 50]
      [] state = "CHANGES_REQUESTED" ->
            [counted EXCEPT !.changesRequested = @ + 1, !.points = @ + 30]
      [] OTHER ->
            [counted EXCEPT !.comments = @ + 1, !.points = @ + 10]

\* mutant: no reviewedUsers.has(username) test
LeaderboardReviewSkippedNoDedup(seen, review) == review.author = Null

\* is the review skipped by `if (!username || reviewedUsers.has(username))`
LeaderboardReviewSkipped(seen, review) ==
    review.author = Null \/ review.author \in seen

LeaderboardReview(map, seen, review) ==
    IF LeaderboardReviewSkipped(seen, review)
    THEN [leaderboard |-> map, reviewedUsers |-> seen]
    ELSE LET created == getOrCreateReviewer(map, review.author)
             i == IndexOf(created, review.author)
         IN [leaderboard |->
                [created EXCEPT ![i] = ReviewerAfterReview(@, review.state)],
             reviewedUsers |-> seen \cup {review.author}]

\* mutant: an actor's plain comments are counted once
LeaderboardCommentOnce(map, comment) ==
    IF comment.author = Null \/ Has(map, comment.author) THEN map
    ELSE LET created == getOrCreateReviewer(map, comment.author)
             i == IndexOf(created, comment.author)
         IN [created EXCEPT ![i] =
                [@ EXCEPT !.totalComments = @ + 1, !.points = @ + 5]]

(* getLeaderboard: the body of the loop over pr.comments.nodes *)
LeaderboardComment(map, comment) ==
    IF comment.author = Null THEN map
    ELSE LET created == getOrCreateReviewer(map, comment.author)
             i == IndexOf(created, comment.author)
         IN [created EXCEPT ![i] =
                [@ EXCEPT !.totalComments = @ + 1, !.points = @ + 5]]

----------------------------------------------------------------------------
(* Ages.  The code divides a difference of getTime() values by the length  *)
(* of the unit and compares the quotient q = ageMs / unitMs with an        *)
(* integer k; q >= k exactly when ageMs >= k * unitMs.                     *)

UnitMs(timeUnit) == IF timeUnit = "hours" THEN MsPerHour ELSE MsPerDay

\* mutant: > in place of >=
AgeAtLeastStrict(ageMs, timeUnit, k) == ageMs > k * UnitMs(timeUnit)

\* ageMs / UnitMs(timeUnit) >= k
AgeAtLeast(ageMs, timeUnit, k) == ageMs >= k * UnitMs(timeUnit)

\* mutant: the age taken in hours whatever the unit
AgeBelowInHours(ageMs, timeUnit, k) == ageMs < k * MsPerHour

\* ageMs / UnitMs(timeUnit) < k
AgeBelow(ageMs, timeUnit, k) == ageMs < k * UnitMs(timeUnit)

----------------------------------------------------------------------------
(* getRescueLeaderboard *)

\* the if / else-if / else chains on ageAtReview and ageAtComment
RescueTier(ageMs, timeUnit) ==
    IF timeUnit = "hours"
    THEN IF AgeAtLeast(ageMs, timeUnit, 6) THEN "critical"
         ELSE IF AgeAtLeast(ageMs, timeUnit, 3) THEN "urgent"
         ELSE "warning"
    ELSE IF AgeAtLeast(ageMs, timeUnit, 14) THEN "critical"
         ELSE IF AgeAtLeast(ageMs, timeUnit, 7) THEN "urgent"
         ELSE "warning"

\* review.state === 'APPROVED' || review.state === 'CHANGES_REQUESTED'
\* mutant: every disposition but COMMENTED is a full review
isFullReviewUnlessCommented(state) == state # "COMMENTED"

isFullReview(state) == state = "APPROVED" \/ state = "CHANGES_REQUESTED"

\* mutant: Math.round in place of Math.floor
ReviewRescuePointsRounded(tier, state) ==
    LET base == CASE tier = "critical" -> 100
                  [] tier = "urgent" -> 50
                  [] OTHER -> 25
        tenths == IF state = "APPROVED" \/ state = "CHANGES_REQUESTED"
                  THEN 10 ELSE 5
    IN (base * tenths + 5) \div 10

\* Math.floor(base * multiplier), multiplier 1.0 or 0.5
ReviewRescuePoints(tier, state) ==
    LET base == CASE tier = "critical" -> 100
                  [] tier = "urgent" -> 50
                  [] OTHER -> 25
        tenths == IF isFullReview(state) THEN 10 ELSE 5
    IN (base * tenths) \div 10

\* the literals assigned to rescuePoints in the comment loop
CommentRescuePoints(tier) ==
    CASE tier = "critical" -> 50
      [] tier = "urgent" -> 25
      [] OTHER -> 12

\* mutant: the else branch does not count the warning rescue
RescuerAfterRescueNoWarning(stats, tier, rescuePoints) ==
    LET counted == [stats EXCEPT !.rescueCount = @ + 1,
                                 !.points = @ + rescuePoints] IN
    CASE tier = "critical" -> [counted EXCEPT !.criticalRescues = @ + 1]
      [] tier = "urgent" -> [counted EXCEPT !.urgentRescues = @ + 1]
      [] OTHER -> counted

\* stats.rescueCount++, the tier counter ++, stats.points += rescuePoints
RescuerAfterRescue(stats, tier, rescuePoints) ==
    LET counted == [stats EXCEPT !.rescueCount = @ + 1,
                                 !.points = @ + rescuePoints] IN
    CASE tier = "critical" -> [counted EXCEPT !.criticalRescues = @ + 1]
      [] tier = "urgent" -> [counted EXCEPT !.urgentRescues = @ + 1]
      [] OTHER -> [counted EXCEPT !.warningRescues = @ + 1]

\* mutant: a disposition outside the three known ones is counted nowhere
RescuerAfterReviewTypeKnownOnly(stats, state) ==
    CASE state = "APPROVED" -> [stats EXCEPT !.approvals = @ + 1]
      [] state = "CHANGES_REQUESTED" ->
            [stats EXCEPT !.changesRequested = @ + 1]
      [] state = "COMMENTED" -> [stats EXCEPT !.comments = @ + 1]
      [] OTHER -> stats

\* switch (review.state) of the rescue review loop
RescuerAfterReviewType(stats, state) ==
    CASE state = "APPROVED" -> [stats EXCEPT !.approvals = @ + 1]
      [] state = "CHANGES_REQUESTED" ->
            [stats EXCEPT !.changesRequested = @ + 1]
      [] OTHER -> [stats EXCEPT !.comments = @ + 1]

\* mutant: a review without author is not skipped
RescueReviewSkippedNullCounted(seen, review) == review.author \in seen

\* is the review skipped by `if (!username || reviewedUsers.has(username))`
RescueReviewSkipped(seen, review) ==
    review.author = Null \/ review.author \in seen

\* the body of the loop over pr.reviews.nodes
RescueReview(map, seen, prCreatedAt, review, minAge, timeUnit) ==
    IF RescueReviewSkipped(seen, review)
    THEN [leaderboard |-> map, reviewedUsers |-> seen]
    ELSE LET ageAtReviewMs == review.submittedAt - prCreatedAt
             marked == seen \cup {review.author}
         IN IF AgeBelow(ageAtReviewMs, timeUnit, minAge)
            THEN [leaderboard |-> map, reviewedUsers |-> marked]
            ELSE LET created == getOrCreateRescuer(map, review.author)
                     i == IndexOf(created, review.author)
                     tier == RescueTier(ageAtReviewMs, timeUnit)
                     rescued == RescuerAfterRescue(created[i], tier,
                                    ReviewRescuePoints(tier, review.state))
                 IN [leaderboard |->
                        [created EXCEPT ![i] =
                            RescuerAfterReviewType(rescued, review.state)],
                     reviewedUsers |-> marked]

\* mutant: a comment of an actor who reviewed the PR is not skipped
RescueCommentSkippedReviewIgnored(commented, reviewed, comment) ==
    \/ comment.author = Null
    \/ comment.author \in commented

\* is the comment skipped by
\* `if (!username || commentedUsers.has(username) || reviewedUsers.has(username))`
RescueCommentSkipped(commented, reviewed, comment) ==
    \/ comment.author = Null
    \/ comment.author \in commented
    \/ comment.author \in reviewed

\* the body of the loop over pr.comments.nodes
RescueComment(map, commented, reviewed, prCreatedAt, comment, minAge, timeUnit) ==
    IF RescueCommentSkipped(commented, reviewed, comment)
    THEN [leaderboard |-> map, commentedUsers |-> commented]
    ELSE LET ageAtCommentMs == comment.createdAt - prCreatedAt
             marked == commented \cup {comment.author}
         IN IF AgeBelow(ageAtCommentMs, timeUnit, minAge)
            THEN [leaderboard |-> map, commentedUsers |-> marked]
            ELSE LET created == getOrCreateRescuer(map, comment.author)
                     i == IndexOf(created, comment.author)
                     tier == RescueTier(ageAtCommentMs, timeUnit)
                     rescued == RescuerAfterRescue(created[i], tier,
                                    CommentRescuePoints(tier))
                 IN [leaderboard |->
                        [created EXCEPT ![i] =
                            [rescued EXCEPT !.comments = @ + 1]],
                     commentedUsers |-> marked]

----------------------------------------------------------------------------
(* fetchStalePRs: the body of the loop over prConnection.nodes *)

\* mutant: reviewed PRs are kept whatever onlyUnreviewed is
StalePRsAfterNodeReviewedKept(stale, prNode, nowMs, staleTime, onlyUnreviewed, timeUnit) ==
    LET ageMs == nowMs - prNode.createdAt
    IN IF AgeBelow(ageMs, timeUnit, staleTime) THEN stale
       ELSE Append(stale, [number |-> prNode.number,
                           createdAt |-> prNode.createdAt,
                           reviewCount |-> Len(prNode.reviews),
                           commentCount |-> Len(prNode.comments)])

StalePRsAfterNode(stale, prNode, nowMs, staleTime, onlyUnreviewed, timeUnit) ==
    LET ageMs == nowMs - prNode.createdAt
        reviewCount == Len(prNode.reviews)
        commentCount == Len(prNode.comments)
    IN IF AgeBelow(ageMs, timeUnit, staleTime) THEN stale
       ELSE IF onlyUnreviewed /\ reviewCount > 0 THEN stale
       ELSE Append(stale, [number |-> prNode.number,
                           createdAt |-> prNode.createdAt,
                           reviewCount |-> reviewCount,
                           commentCount |-> commentCount])

----------------------------------------------------------------------------
(* calculatePRStatus; message is <<text>> or <<text, threshold, units>> *)

criticalThreshold(timeUnit) == IF timeUnit = "hours" THEN 6 ELSE 14
\* mutant: the urgent threshold of days in both units
urgentThresholdOfDays(timeUnit) == 7
urgentThreshold(timeUnit) == IF timeUnit = "hours" THEN 3 ELSE 7
warningThreshold(timeUnit) == IF timeUnit = "hours" THEN 1 ELSE 3

\* mutant: a reviewed PR is safe only below the critical threshold
calculatePRStatusReviewedLate(age, reviewCount, commentCount, timeUnit) ==
    IF age >= criticalThreshold(timeUnit)
    THEN [urgency |-> "critical",
          message |-> <<"CRITICAL: No activity for",
                        criticalThreshold(timeUnit), timeUnit>>]
    ELSE IF reviewCount > 0
    THEN [urgency |-> "normal", message |-> <<"Reviewed">>]
    ELSE [urgency |-> "normal", message |-> <<"New PR">>]

\* mutant: urgent only at the urgent threshold itself
calculatePRStatusUrgentOnce(age, reviewCount, commentCount, timeUnit) ==
    IF reviewCount > 0
    THEN [urgency |-> "normal", message |-> <<"Reviewed">>]
    ELSE IF age >= criticalThreshold(timeUnit)
    THEN [urgency |-> "critical",
          message |-> <<"CRITICAL: No activity for",
                        criticalThreshold(timeUnit), timeUnit>>]
    ELSE IF age = urgentThreshold(timeUnit)
    THEN [urgency |-> "urgent",
          message |-> <<"URGENT: No activity for",
                        urgentThreshold(timeUnit), timeUnit>>]
    ELSE IF age >= warningThreshold(timeUnit)
    THEN [urgency |-> "warning", message |-> <<"Needs attention">>]
    ELSE [urgency |-> "normal", message |-> <<"New PR">>]

calculatePRStatus(age, reviewCount, commentCount, timeUnit) ==
    LET hasReview == reviewCount > 0
        hasComments == commentCount > 0
        units == IF timeUnit = "hours" THEN "hours" ELSE "days"
    IN IF hasReview
       THEN [urgency |-> "normal", message |-> <<"Reviewed">>]
       ELSE IF age >= criticalThreshold(timeUnit)
       THEN [urgency |-> "critical",
             message |->
                IF hasComments
                THEN <<"CRITICAL: Discussed but not reviewed for",
                       criticalThreshold(timeUnit), units>>
                ELSE <<"CRITICAL: No activity for",
                       criticalThreshold(timeUnit), units>>]
       ELSE IF age >= urgentThreshold(timeUnit)
       THEN [urgency |-> "urgent",
             message |->
                IF hasComments
                THEN <<"URGENT: Comments but no review">>
                ELSE <<"URGENT: No activity for",
                       urgentThreshold(timeUnit), units>>]
       ELSE IF age >= warningThreshold(timeUnit)
       THEN [urgency |-> "warning",
             message |->
                IF hasComments
                THEN <<"WARNING: Discussed, no review">>
                ELSE <<"Needs attention">>]
       ELSE [urgency |-> "normal", message |-> <<"New PR">>]

----------------------------------------------------------------------------
(* getTop10MostNeglectedPRs, after fetchStalePRs has resolved *)

\* the callback of stalePRs.map
PRWithStatus(stale, nowMs, timeUnit) ==
    LET ageMs == nowMs - stale.createdAt
        age == ageMs \div UnitMs(timeUnit)
    IN [number |-> stale.number, createdAt |-> stale.createdAt,
        reviewCount |-> stale.reviewCount,
        commentCount |-> stale.commentCount,
        ageDays |-> age,
        status |-> calculatePRStatus(age, stale.reviewCount,
                                     stale.commentCount, timeUnit)]

urgencyOrder(urgency) ==
    CASE urgency = "critical" -> 4
      [] urgency = "urgent" -> 3
      [] urgency = "warning" -> 2
      [] OTHER -> 1

\* mutant: within one urgency the younger PR first
CompareNeglectedYoungerFirst(a, b) ==
    IF urgencyOrder(a.status.urgency) # urgencyOrder(b.status.urgency)
    THEN urgencyOrder(b.status.urgency) - urgencyOrder(a.status.urgency)
    ELSE a.ageDays - b.ageDays

\* the comparator of prsWithStatus.sort
CompareNeglected(a, b) ==
    IF urgencyOrder(a.status.urgency) # urgencyOrder(b.status.urgency)
    THEN urgencyOrder(b.status.urgency) - urgencyOrder(a.status.urgency)
    ELSE b.ageDays - a.ageDays

RECURSIVE InsertNeglected(_, _)
InsertNeglected(sorted, x) ==
    IF sorted = <<>> THEN <<x>>
    ELSE IF CompareNeglected(Head(sorted), x) <= 0
         THEN <<Head(sorted)>> \o InsertNeglected(Tail(sorted), x)
         ELSE <<x>> \o sorted

\* Array.prototype.sort with CompareNeglected: stable
RECURSIVE SortNeglected(_)
SortNeglected(arr) ==
    IF arr = <<>> THEN <<>>
    ELSE InsertNeglected(SortNeglected(SubSeq(arr, 1, Len(arr) - 1)),
                         arr[Len(arr)])

\* mutant: the last `limit` entries
SliceTail(arr, limit) ==
    SubSeq(arr, IF Len(arr) < limit THEN 1 ELSE Len(arr) - limit + 1, Len(arr))

\* arr.slice(0, limit)
Slice(arr, limit) ==
    SubSeq(arr, 1, IF Len(arr) < limit THEN Len(arr) ELSE limit)

Top10MostNeglected(stale, nowMs, timeUnit) ==
    Slice(SortNeglected([i \in 1..Len(stale) |->
                            PRWithStatus(stale[i], nowMs, timeUnit)]), 10)

----------------------------------------------------------------------------
(* More inputs *)

\* (minAge, timeUnit, countComments) of getRescueLeaderboard
RescueArgs ==
    {<<7, "days", TRUE>>, <<1, "days", TRUE>>, <<1, "hours", TRUE>>,
     <<7, "days", FALSE>>}
\* (staleTime, onlyUnreviewed, timeUnit) of fetchStalePRs
StaleArgs ==
    {<<7, TRUE, "days">>, <<3, FALSE, "days">>, <<3, TRUE, "hours">>}
\* (minTime, timeUnit) of getTop10MostNeglectedPRs
Top10Args == {<<3, "days">>, <<3, "hours">>}
\* what a rejected this.graphql(...) throws
Errors == {"HttpError", "GraphqlResponseError"}
\* new Date() of fetchStalePRs
NowChoices == {20 * MsPerDay}
\* now - pr.createdAt of the PR nodes of the stale query
StaleAgeChoices == {3 * MsPerHour, 6 * MsPerHour, 3 * MsPerDay,
                    10 * MsPerDay + MsPerHour, 14 * MsPerDay}
\* time between the new Date() of fetchStalePRs and that of its caller
Delays == {0, MsPerHour}

\* a list of n review (or comment) nodes of the stale query
NodeList(n) == [i \in 1..n |-> [author |-> "alice"]]

\* no PR node; reviewsBy holds the authors of the review nodes iterated so
\* far, rescuableBy the authors of those of them of age >= minAge,
\* creditedBy the authors of the nodes that were credited as a rescue
NoPR == [createdAt |-> 0, reviewsBy |-> {}, rescuableBy |-> {},
         creditedBy |-> {}]
NoNode == [author |-> Null]
Pending == [kind |-> "pending", value |-> <<>>]

\* the XP actions syncXP awards, each with the counter it follows
XPActions ==
    {"CRITICAL_RESCUE", "URGENT_RESCUE", "WARNING_RESCUE", "APPROVAL",
     "CHANGES_REQUESTED", "COMMENT"}

NoOp == [name |-> "none", minAge |-> 7, timeUnit |-> "days",
         countComments |-> TRUE, onlyUnreviewed |-> TRUE,
         caller |-> "none", limit |-> 0]
NoServed == [prs |-> 0, events |-> 0, pages |-> <<>>, error |-> Null]
NoAlone == [leaderboard |-> <<>>, reviewedUsers |-> {}, commentedUsers |-> {},
            cursor |-> Null, pagesFetched |-> 0]
\* the locals of a run that was not started
IdleRun ==
    [op |-> NoOp, pc |-> "idle", cursor |-> Null, pagesFetched |-> 0,
     requests |-> 0, res |-> <<>>, pr |-> NoPR, node |-> NoNode,
     reviewedUsers |-> {}, commentedUsers |-> {}, leaderboard |-> <<>>,
     stalePRs |-> <<>>, now |-> 0, result |-> Pending, served |-> NoServed,
     alone |-> NoAlone]
\* localStorage without any key: getItem returns null for <<>>, the value
\* v for <<v>>
EmptyStorage ==
    [pr_rescue_stats |-> <<>>, team_goal |-> <<>>, user_xp |-> <<>>,
     github_activity_snapshot |-> <<>>]
\* no method of the REST service has been called
NoRest == [name |-> "none", pc |-> "idle", minAgeDays |-> 0,
           state |-> "all", prStates |-> <<>>, listed |-> 0,
           pr |-> <<>>, ageDays |-> 0, reviews |-> <<>>, comments |-> <<>>,
           prsWithoutActivity |-> <<>>, reviewerMap |-> <<>>]

NoLedger == [syncs |-> 0, calls |-> 0,
             granted |-> [a \in XPActions |-> 0],
             reported |-> [a \in XPActions |-> 0]]

----------------------------------------------------------------------------
(* The state after `new GitHubService(config)`: no run started *)

Init ==
    /\ op = NoOp
    /\ pc = "idle"
    /\ cursor = Null
    /\ pagesFetched = 0
    /\ requests = 0
    /\ res = <<>>
    /\ pr = NoPR
    /\ node = NoNode
    /\ reviewedUsers = {}
    /\ commentedUsers = {}
    /\ leaderboard = <<>>
    /\ stalePRs = <<>>
    /\ now = 0
    /\ result = Pending
    /\ served = NoServed
    /\ alone = NoAlone
    /\ other = IdleRun
    /\ localStorage = EmptyStorage
    /\ ledger = NoLedger
    /\ rest = NoRest

\* the history `alone` after a step of the executing run: the step's
\* effect on the accumulators, cursor and page counter, computed from the
\* history and the node or pageInfo the step read
AloneAfter ==
    CASE pc' \in {"thrown", "failed"} ->
            [alone EXCEPT !.leaderboard = <<>>, !.reviewedUsers = {},
                          !.commentedUsers = {}]
      [] pc' = "reviews" /\ served'.prs = served.prs + 1 ->
            [alone EXCEPT !.reviewedUsers = {}]
      [] pc' = "reviews" /\ served'.events = served.events + 1 ->
            LET after ==
                    IF op.name = "getLeaderboard"
                    THEN LeaderboardReview(alone.leaderboard,
                                           alone.reviewedUsers, node')
                    ELSE RescueReview(alone.leaderboard, alone.reviewedUsers,
                                      pr.createdAt, node', op.minAge,
                                      op.timeUnit)
            IN [alone EXCEPT !.leaderboard = after.leaderboard,
                             !.reviewedUsers = after.reviewedUsers]
      [] pc = "reviews" /\ pc' = "comments" ->
            [alone EXCEPT !.commentedUsers = {}]
      [] pc' = "comments" /\ served'.events = served.events + 1 ->
            IF op.name = "getLeaderboard"
            THEN [alone EXCEPT !.leaderboard =
                                   LeaderboardComment(@, node')]
            ELSE LET after ==
                         RescueComment(alone.leaderboard,
                                       alone.commentedUsers,
                                       alone.reviewedUsers, pr.createdAt,
                                       node', op.minAge, op.timeUnit)
                 IN [alone EXCEPT !.leaderboard = after.leaderboard,
                                  !.commentedUsers = after.commentedUsers]
      [] pagesFetched' = pagesFetched + 1 ->
            [alone EXCEPT !.cursor = res'[1].endCursor,
                          !.pagesFetched = @ + 1]
      [] OTHER -> alone

\* what a step of the executing run leaves alone: the suspended run, the
\* browser storage
Elsewhere ==
    /\ alone' = AloneAfter
    /\ UNCHANGED <<other, localStorage, ledger, rest>>

\* a call of `caller`, which calls `name` at once (caller = name for a
\* direct call), up to the first `await this.graphql(...)`
EnterFrom(caller, limit, name, minAge, timeUnit, countComments, onlyUnreviewed, nowMs) ==
    /\ pc = "idle"
    /\ op' = [name |-> name, minAge |-> minAge, timeUnit |-> timeUnit,
              countComments |-> countComments,
              onlyUnreviewed |-> onlyUnreviewed,
              caller |-> caller, limit |-> limit]
    /\ now' = nowMs
    /\ requests' = requests + 1
    /\ pc' = "await"
    /\ UNCHANGED <<cursor, pagesFetched, res, pr, node, reviewedUsers,
                   commentedUsers, leaderboard, stalePRs, result, served>>
    /\ Elsewhere

\* a direct call of an operation
Enter(name, minAge, timeUnit, countComments, onlyUnreviewed, nowMs) ==
    EnterFrom(name, 0, name, minAge, timeUnit, countComments, onlyUnreviewed,
              nowMs)

getLeaderboard == Enter("getLeaderboard", 7, "days", TRUE, TRUE, 0)

\* limit of getTopReviewers and getTopRescuers: a short one and the default
TopLimits == {1, 10}
\* (limit, minAge, timeUnit, countComments) of getTopRescuers
TopRescuerArgs ==
    {<<1, 7, "days", TRUE>>, <<10, 7, "days", TRUE>>, <<1, 1, "hours", TRUE>>}

\* calls this.getLeaderboard()
getTopReviewers ==
    \E limit \in TopLimits :
        EnterFrom("getTopReviewers", limit, "getLeaderboard", 7, "days",
                  TRUE, TRUE, 0)

\* calls this.getRescueLeaderboard(minAge, timeUnit, countComments)
getTopRescuers ==
    \E args \in TopRescuerArgs :
        EnterFrom("getTopRescuers", args[1], "getRescueLeaderboard", args[2],
                  args[3], args[4], TRUE, 0)

IsTopCall == op.caller \in {"getTopReviewers", "getTopRescuers"}

\* the run was called through getTopReviewers, getTopRescuers or
\* getTop10MostNeglectedPRs, which awaits the method that holds the loop
HasCaller == IsTopCall \/ op.name = "getTop10MostNeglectedPRs"

getRescueLeaderboard ==
    \E args \in RescueArgs :
        Enter("getRescueLeaderboard", args[1], args[2], args[3], TRUE, 0)

fetchStalePRs ==
    \E args \in StaleArgs, nowMs \in NowChoices :
        Enter("fetchStalePRs", args[1], args[3], TRUE, args[2], nowMs)

\* calls this.fetchStalePRs(minTime, false, timeUnit)
getTop10MostNeglectedPRs ==
    \E args \in Top10Args, nowMs \in NowChoices :
        Enter("getTop10MostNeglectedPRs", args[1], args[2], TRUE, FALSE, nowMs)

IsStaleOp == op.name \in {"fetchStalePRs", "getTop10MostNeglectedPRs"}
IsBoardOp == op.name \in {"getLeaderboard", "getRescueLeaderboard"}

----------------------------------------------------------------------------
(* The awaited request settles *)

\* this.graphql(...) resolves; the page's nodes and pageInfo are read as
\* the loops reach them
Respond ==
    /\ pc = "await"
    /\ pc' = "nodes"
    /\ res' = <<>>
    /\ UNCHANGED <<op, cursor, pagesFetched, requests, pr, node,
                   reviewedUsers, commentedUsers, leaderboard, stalePRs, now,
                   result, served>>
    /\ Elsewhere

\* mutant: the rejection is caught and the run resolves to an empty array
FailAsEmptySuccess ==
    \E error \in Errors :
        /\ pc = "await"
        /\ pc' = "done"
        /\ result' = [kind |-> "fulfilled", value |-> <<>>]
        /\ served' = [served EXCEPT !.error = error]
        /\ UNCHANGED <<op, cursor, pagesFetched, requests, res, pr, node,
                       reviewedUsers, commentedUsers, leaderboard, stalePRs,
                       now>>
        /\ Elsewhere

\* this.graphql(...) rejects: nothing catches, the locals are dropped and
\* the promise of the method that holds the loop rejects with the error.  A
\* caller that awaits the method has its own promise, still pending: its
\* continuation runs in a later turn of the microtask queue
Fail ==
    \E error \in Errors :
        /\ pc = "await"
        /\ pc' = IF HasCaller THEN "thrown" ELSE "failed"
        /\ result' = IF HasCaller THEN result
                     ELSE [kind |-> "rejected", value |-> error]
        /\ served' = [served EXCEPT !.error = error]
        /\ leaderboard' = <<>>
        /\ stalePRs' = <<>>
        /\ pr' = NoPR
        /\ node' = NoNode
        /\ reviewedUsers' = {}
        /\ commentedUsers' = {}
        /\ UNCHANGED <<op, cursor, pagesFetched, requests, res, now>>
        /\ Elsewhere

----------------------------------------------------------------------------
(* The loops over one page *)

\* for (const pr of prConnection.nodes): the next PR node of a board query
BeginPR ==
    \E createdAt \in CreatedTimes :
        /\ pc = "nodes"
        /\ IsBoardOp
        /\ served.prs < MaxPRs
        /\ requests <= DataPages
        /\ pr' = [NoPR EXCEPT !.createdAt =
                     IF op.name = "getRescueLeaderboard" THEN createdAt ELSE 0]
        /\ node' = NoNode
        /\ reviewedUsers' = {}
        /\ served' = [served EXCEPT !.prs = @ + 1]
        /\ pc' = "reviews"
        /\ UNCHANGED <<op, cursor, pagesFetched, requests, res,
                       commentedUsers, leaderboard, stalePRs, now, result>>
        /\ Elsewhere

\* the PR node's summary after one more of its review nodes is iterated
PRAfterReview(prNode, review, minAge, timeUnit) ==
    IF review.author = Null THEN prNode
    ELSE [prNode EXCEPT
            !.reviewsBy = @ \cup {review.author},
            !.rescuableBy =
                IF review.submittedAt - prNode.createdAt
                       >= minAge * UnitMs(timeUnit)
                THEN @ \cup {review.author} ELSE @]

\* the PR node's summary after one of its nodes was or was not credited
PRAfterCredit(prNode, actionNode, credited) ==
    IF credited THEN [prNode EXCEPT !.creditedBy = @ \cup {actionNode.author}]
    ELSE prNode

\* getLeaderboard: one iteration of the loop over pr.reviews.nodes
LeaderboardReviewStep(review) ==
    /\ pc = "reviews"
    /\ op.name = "getLeaderboard"
    /\ served.events < MaxEvents
    /\ leaderboard' =
          LeaderboardReview(leaderboard, reviewedUsers, review).leaderboard
    /\ reviewedUsers' =
          LeaderboardReview(leaderboard, reviewedUsers, review).reviewedUsers
    /\ pr' = PRAfterCredit(
                 IF review.author = Null THEN pr
                 ELSE [pr EXCEPT !.reviewsBy = @ \cup {review.author}],
                 review, leaderboard' # leaderboard)
    /\ node' = review
    /\ served' = [served EXCEPT !.events = @ + 1]
    /\ UNCHANGED <<op, pc, cursor, pagesFetched, requests, res,
                   commentedUsers, stalePRs, now, result>>
    /\ Elsewhere

\* review nodes of a page; a node whose author is null is skipped before
\* its state is read, so one such node stands for all of them
LeaderboardReviews ==
    {r \in [author : Authors, state : ReviewStates] :
        r.author = Null => r.state = "COMMENTED"}

NextLeaderboardReview ==
    /\ pc = "reviews"
    /\ \E review \in LeaderboardReviews : LeaderboardReviewStep(review)

\* getRescueLeaderboard: one iteration of the loop over pr.reviews.nodes
RescueReviewStep(review) ==
    /\ pc = "reviews"
    /\ op.name = "getRescueLeaderboard"
    /\ served.events < MaxEvents
    /\ leaderboard' =
          RescueReview(leaderboard, reviewedUsers, pr.createdAt, review,
                       op.minAge, op.timeUnit).leaderboard
    /\ reviewedUsers' =
          RescueReview(leaderboard, reviewedUsers, pr.createdAt, review,
                       op.minAge, op.timeUnit).reviewedUsers
    /\ pr' = PRAfterCredit(PRAfterReview(pr, review, op.minAge, op.timeUnit),
                           review, leaderboard' # leaderboard)
    /\ node' = review
    /\ served' = [served EXCEPT !.events = @ + 1]
    /\ UNCHANGED <<op, pc, cursor, pagesFetched, requests, res,
                   commentedUsers, stalePRs, now, result>>
    /\ Elsewhere

\* review nodes of a page; a node whose author is null is skipped before
\* its state and date are used, so one such node stands for all of them
RescueReviews ==
    {[author |-> a, state |-> s, submittedAt |-> pr.createdAt + d] :
        a \in Users, s \in ReviewStates, d \in AgeChoices(op.timeUnit)}
    \cup {[author |-> Null, state |-> "COMMENTED",
           submittedAt |-> pr.createdAt + 7 * MsPerDay]}

NextRescueReview ==
    /\ pc = "reviews"
    /\ op.name = "getRescueLeaderboard"
    /\ \E review \in RescueReviews : RescueReviewStep(review)

\* the review loop of the PR ends; the comment loop is entered unless
\* getRescueLeaderboard runs with countComments false
EndReviews ==
    /\ pc = "reviews"
    /\ IF op.name = "getRescueLeaderboard" /\ ~op.countComments
       THEN /\ pc' = "nodes"
            /\ UNCHANGED commentedUsers
       ELSE /\ pc' = "comments"
            /\ commentedUsers' = {}
    /\ node' = NoNode
    /\ UNCHANGED <<op, cursor, pagesFetched, requests, res, pr, reviewedUsers,
                   leaderboard, stalePRs, now, result, served>>
    /\ Elsewhere

\* getLeaderboard: one iteration of the loop over pr.comments.nodes
LeaderboardCommentStep(comment) ==
    /\ pc = "comments"
    /\ op.name = "getLeaderboard"
    /\ served.events < MaxEvents
    /\ leaderboard' = LeaderboardComment(leaderboard, comment)
    /\ pr' = PRAfterCredit(pr, comment, leaderboard' # leaderboard)
    /\ node' = comment
    /\ served' = [served EXCEPT !.events = @ + 1]
    /\ UNCHANGED <<op, pc, cursor, pagesFetched, requests, res,
                   reviewedUsers, commentedUsers, stalePRs, now, result>>
    /\ Elsewhere

LeaderboardComments == [author : Authors]

NextLeaderboardComment ==
    /\ pc = "comments"
    /\ \E comment \in LeaderboardComments : LeaderboardCommentStep(comment)

\* getRescueLeaderboard: one iteration of the loop over pr.comments.nodes
RescueCommentStep(comment) ==
    /\ pc = "comments"
    /\ op.name = "getRescueLeaderboard"
    /\ served.events < MaxEvents
    /\ leaderboard' =
          RescueComment(leaderboard, commentedUsers, reviewedUsers,
                        pr.createdAt, comment, op.minAge,
                        op.timeUnit).leaderboard
    /\ commentedUsers' =
          RescueComment(leaderboard, commentedUsers, reviewedUsers,
                        pr.createdAt, comment, op.minAge,
                        op.timeUnit).commentedUsers
    /\ pr' = PRAfterCredit(pr, comment, leaderboard' # leaderboard)
    /\ node' = comment
    /\ served' = [served EXCEPT !.events = @ + 1]
    /\ UNCHANGED <<op, pc, cursor, pagesFetched, requests, res,
                   reviewedUsers, stalePRs, now, result>>
    /\ Elsewhere

\* comment nodes of a page; one node without author stands for all of them
RescueComments ==
    {[author |-> a, createdAt |-> pr.createdAt + d] :
        a \in Users, d \in AgeChoices(op.timeUnit)}
    \cup {[author |-> Null, createdAt |-> pr.createdAt + 7 * MsPerDay]}

NextRescueComment ==
    /\ pc = "comments"
    /\ op.name = "getRescueLeaderboard"
    /\ \E comment \in RescueComments : RescueCommentStep(comment)

\* the comment loop of the PR ends
EndComments ==
    /\ pc = "comments"
    /\ pc' = "nodes"
    /\ node' = NoNode
    /\ UNCHANGED <<op, cursor, pagesFetched, requests, res, pr, reviewedUsers,
                   commentedUsers, leaderboard, stalePRs, now, result, served>>
    /\ Elsewhere

\* fetchStalePRs: one iteration of the loop over prConnection.nodes
StaleNodeStep(prNode) ==
    /\ pc = "nodes"
    /\ IsStaleOp
    /\ served.prs < MaxPRs
    /\ requests <= DataPages
    /\ Len(prNode.reviews) + Len(prNode.comments) <= MaxEvents - served.events
    /\ stalePRs' = StalePRsAfterNode(stalePRs, prNode, now, op.minAge,
                                     op.onlyUnreviewed, op.timeUnit)
    /\ pr' = prNode
    /\ served' = [served EXCEPT
                    !.prs = @ + 1,
                    !.events = @ + Len(prNode.reviews) + Len(prNode.comments)]
    /\ UNCHANGED <<op, pc, cursor, pagesFetched, requests, res, node,
                   reviewedUsers, commentedUsers, leaderboard, now, result>>
    /\ Elsewhere

StaleNodes ==
    {[number |-> served.prs + 1, createdAt |-> now - age,
      reviews |-> NodeList(nr), comments |-> NodeList(nc)] :
        age \in StaleAgeChoices, nr \in 0..MaxEvents, nc \in 0..MaxEvents}

NextStaleNode ==
    /\ pc = "nodes"
    /\ IsStaleOp
    /\ \E prNode \in StaleNodes : StaleNodeStep(prNode)

\* length of the longest first page of open PRs without activity
MaxBacklog == 11
\* now - pr.createdAt of the PR nodes of such a page
BacklogAgeChoices == {3 * MsPerDay, 14 * MsPerDay}

\* fetchStalePRs: one iteration of the loop over prConnection.nodes, the
\* source's first page (of up to 30 nodes) holding PRs without reviews and
\* comments
BacklogNodeStep(prNode) ==
    /\ pc = "nodes"
    /\ IsStaleOp
    /\ requests = 1
    /\ served.prs < MaxBacklog
    /\ stalePRs' = StalePRsAfterNode(stalePRs, prNode, now, op.minAge,
                                     op.onlyUnreviewed, op.timeUnit)
    /\ pr' = prNode
    /\ served' = [served EXCEPT !.prs = @ + 1]
    /\ UNCHANGED <<op, pc, cursor, pagesFetched, requests, res, node,
                   reviewedUsers, commentedUsers, leaderboard, now, result>>
    /\ Elsewhere

BacklogNodes ==
    {[number |-> served.prs + 1, createdAt |-> now - age,
      reviews |-> <<>>, comments |-> <<>>] : age \in BacklogAgeChoices}

NextBacklogNode ==
    /\ pc = "nodes"
    /\ IsStaleOp
    /\ \E prNode \in BacklogNodes : BacklogNodeStep(prNode)

----------------------------------------------------------------------------
(* The end of a page: break, or the next request, or the loop's exit *)

\* what the run returns when its loop has ended
ReturnValue(delay) ==
    CASE IsBoardOp /\ IsTopCall -> Slice(SortByPoints(leaderboard), op.limit)
      [] IsBoardOp /\ ~IsTopCall -> SortByPoints(leaderboard)
      [] op.name = "fetchStalePRs" -> stalePRs
      [] OTHER -> Top10MostNeglected(stalePRs, now + delay, op.timeUnit)

\* mutant: an empty collection is reported as an error
ReturnEmptyAsError(delay) ==
    /\ pc' = IF ReturnValue(delay) = <<>> THEN "failed" ELSE "done"
    /\ result' = IF ReturnValue(delay) = <<>>
                 THEN [kind |-> "rejected", value |-> "NoData"]
                 ELSE [kind |-> "fulfilled", value |-> ReturnValue(delay)]
    /\ now' = IF op.name = "getTop10MostNeglectedPRs" THEN now + delay
              ELSE now

\* the promise of the run settles with its value; getTop10MostNeglectedPRs
\* has read the clock again, delay after fetchStalePRs did
Return(delay) ==
    /\ pc' = "done"
    /\ result' = [kind |-> "fulfilled", value |-> ReturnValue(delay)]
    /\ now' = IF op.name = "getTop10MostNeglectedPRs" THEN now + delay
              ELSE now

\* the loop's exit: `break`, or `while (pagesFetched < 6)` false.  The
\* method that holds the loop returns; a caller that awaits it goes on in
\* a later turn of the event loop, its promise still pending
LoopExit ==
    IF HasCaller
    THEN /\ pc' = "returned"
         /\ UNCHANGED <<result, now>>
    ELSE Return(0)

\* the caller goes on after its await: new Date() (getTop10MostNeglectedPRs),
\* map, sort, slice, return
CallerResumes ==
    \E delay \in Delays :
        /\ pc = "returned"
        /\ Return(delay)
        /\ UNCHANGED <<op, cursor, pagesFetched, requests, res, pr, node,
                       reviewedUsers, commentedUsers, leaderboard, stalePRs,
                       served>>
        /\ Elsewhere

\* the caller's await throws the error of the inner method: nothing catches,
\* the promise of the call rejects with the same error
CallerRejects ==
    /\ pc = "thrown"
    /\ pc' = "failed"
    /\ result' = [kind |-> "rejected", value |-> served.error]
    /\ UNCHANGED <<op, cursor, pagesFetched, requests, res, pr, node,
                   reviewedUsers, commentedUsers, leaderboard, stalePRs, now,
                   served>>
    /\ Elsewhere

\* mutant: the loop test off by one
LoopContinuesOffByOne(fetched) == fetched <= 6

\* the loop test `pagesFetched < 6`
LoopContinues(fetched) == fetched < 6

\* mutant: the next request is sent with the cursor of the previous one
EndPageStaleCursor ==
    \E hasNextPage \in BOOLEAN :
        /\ pc = "nodes"
        /\ res' = <<[hasNextPage |-> hasNextPage,
                     endCursor |-> Cursors[requests]]>>
        /\ IF ~hasNextPage
           THEN /\ LoopExit
                /\ UNCHANGED <<cursor, pagesFetched, requests>>
           ELSE /\ cursor' = cursor
                /\ pagesFetched' = pagesFetched + 1
                /\ IF LoopContinues(pagesFetched + 1)
                   THEN /\ requests' = requests + 1
                        /\ pc' = "await"
                        /\ UNCHANGED <<result, now>>
                   ELSE /\ LoopExit
                        /\ UNCHANGED requests
        /\ served' = [served EXCEPT !.pages = Append(@, hasNextPage)]
        /\ UNCHANGED <<op, pr, node, reviewedUsers, commentedUsers,
                       leaderboard, stalePRs>>
        /\ Elsewhere

\* the nodes of the page are exhausted; pageInfo is read
EndPage ==
    \E hasNextPage \in BOOLEAN :
        /\ pc = "nodes"
        /\ res' = <<[hasNextPage |-> hasNextPage,
                     endCursor |-> Cursors[requests]]>>
        /\ IF ~hasNextPage
           THEN /\ LoopExit
                /\ UNCHANGED <<cursor, pagesFetched, requests>>
           ELSE /\ cursor' = Cursors[requests]
                /\ pagesFetched' = pagesFetched + 1
                /\ IF LoopContinues(pagesFetched + 1)
                   THEN /\ requests' = requests + 1
                        /\ pc' = "await"
                        /\ UNCHANGED <<result, now>>
                   ELSE /\ LoopExit
                        /\ UNCHANGED requests
        /\ served' = [served EXCEPT !.pages = Append(@, hasNextPage)]
        /\ UNCHANGED <<op, pr, node, reviewedUsers, commentedUsers,
                       leaderboard, stalePRs>>
        /\ Elsewhere

----------------------------------------------------------------------------
(* Specifications *)

Next ==
    \/ getLeaderboard
    \/ getRescueLeaderboard
    \/ fetchStalePRs
    \/ getTop10MostNeglectedPRs
    \/ Respond
    \/ Fail
    \/ BeginPR
    \/ NextLeaderboardReview
    \/ NextRescueReview
    \/ EndReviews
    \/ NextLeaderboardComment
    \/ NextRescueComment
    \/ EndComments
    \/ NextStaleNode
    \/ EndPage
    \/ CallerResumes
    \/ CallerRejects

\* runs of every operation
Spec == Init /\ [][Next]_vars

NextLeaderboard ==
    \/ getLeaderboard
    \/ Respond
    \/ Fail
    \/ BeginPR
    \/ NextLeaderboardReview
    \/ EndReviews
    \/ NextLeaderboardComment
    \/ EndComments
    \/ EndPage

\* runs of getLeaderboard
SpecLeaderboard == Init /\ [][NextLeaderboard]_vars

NextRescue ==
    \/ getRescueLeaderboard
    \/ Respond
    \/ Fail
    \/ BeginPR
    \/ NextRescueReview
    \/ EndReviews
    \/ NextRescueComment
    \/ EndComments
    \/ EndPage

\* runs of getRescueLeaderboard
SpecRescue == Init /\ [][NextRescue]_vars

NextStale ==
    \/ fetchStalePRs
    \/ getTop10MostNeglectedPRs
    \/ Respond
    \/ Fail
    \/ NextStaleNode
    \/ EndPage
    \/ CallerResumes
    \/ CallerRejects

\* runs of fetchStalePRs and getTop10MostNeglectedPRs
SpecStale == Init /\ [][NextStale]_vars

NextTop ==
    \/ getTopReviewers
    \/ getTopRescuers
    \/ Respond
    \/ Fail
    \/ BeginPR
    \/ NextLeaderboardReview
    \/ NextRescueReview
    \/ EndReviews
    \/ NextLeaderboardComment
    \/ NextRescueComment
    \/ EndComments
    \/ EndPage
    \/ CallerResumes
    \/ CallerRejects

\* runs of getTopReviewers and getTopRescuers
SpecTop == Init /\ [][NextTop]_vars

NextBacklog ==
    \/ getTop10MostNeglectedPRs
    \/ Respond
    \/ Fail
    \/ NextBacklogNode
    \/ EndPage
    \/ CallerResumes
    \/ CallerRejects

\* runs of getTop10MostNeglectedPRs over a long first page
SpecBacklog == Init /\ [][NextBacklog]_vars

----------------------------------------------------------------------------
(* calculatePRStatus on its own *)

\* largest age given to calculatePRStatus
MaxStatusAge == 15
\* largest reviewCount and commentCount given to calculatePRStatus
MaxStatusCount == 3

\* one call calculatePRStatus(age, reviewCount, commentCount, timeUnit); pr
\* keeps the arguments, result the PRStatus returned
CallCalculatePRStatus ==
    \E age \in 0..MaxStatusAge, reviewCount \in 0..MaxStatusCount,
       commentCount \in 0..MaxStatusCount, timeUnit \in {"hours", "days"} :
        /\ pc = "idle"
        /\ op' = [op EXCEPT !.name = "calculatePRStatus",
                            !.timeUnit = timeUnit]
        /\ pr' = [age |-> age, reviewCount |-> reviewCount,
                  commentCount |-> commentCount]
        /\ result' = [kind |-> "fulfilled",
                      value |-> calculatePRStatus(age, reviewCount,
                                                  commentCount, timeUnit)]
        /\ pc' = "done"
        /\ UNCHANGED <<cursor, pagesFetched, requests, res, node,
                       reviewedUsers, commentedUsers, leaderboard, stalePRs,
                       now, served>>
        /\ Elsewhere

NextStatus == CallCalculatePRStatus

\* calls of calculatePRStatus
SpecStatus == Init /\ [][NextStatus]_vars

----------------------------------------------------------------------------
(* Two runs on one GitHubService instance *)

\* the locals of the executing run, as they are kept while it is suspended
Executing ==
    [op |-> op, pc |-> pc, cursor |-> cursor, pagesFetched |-> pagesFetched,
     requests |-> requests, res |-> res, pr |-> pr, node |-> node,
     reviewedUsers |-> reviewedUsers, commentedUsers |-> commentedUsers,
     leaderboard |-> leaderboard, stalePRs |-> stalePRs, now |-> now,
     result |-> result, served |-> served, alone |-> alone]

\* mutant: leaderboard is a field of the service instead of a local of the
\* run, so the resumed run goes on with the Map of the suspended one
SwitchRunSharedLeaderboard ==
    /\ pc \in {"await", "returned", "thrown", "done", "failed"}
    /\ other.pc \in {"idle", "await", "returned", "thrown"}
    /\ other' = Executing
    /\ op' = other.op
    /\ pc' = other.pc
    /\ cursor' = other.cursor
    /\ pagesFetched' = other.pagesFetched
    /\ requests' = other.requests
    /\ res' = other.res
    /\ pr' = other.pr
    /\ node' = other.node
    /\ reviewedUsers' = other.reviewedUsers
    /\ commentedUsers' = other.commentedUsers
    /\ leaderboard' = leaderboard
    /\ stalePRs' = other.stalePRs
    /\ now' = other.now
    /\ result' = other.result
    /\ served' = other.served
    /\ alone' = other.alone
    /\ UNCHANGED <<localStorage, ledger, rest>>

\* the executing run is suspended at an await or has settled; the event loop goes on with the other run of the instance (a
\* call not yet made, or a run whose awaited response has arrived): each
\* run finds the locals of its own closure
SwitchRun ==
    /\ pc \in {"await", "returned", "thrown", "done", "failed"}
    /\ other.pc \in {"idle", "await", "returned", "thrown"}
    /\ other' = Executing
    /\ op' = other.op
    /\ pc' = other.pc
    /\ cursor' = other.cursor
    /\ pagesFetched' = other.pagesFetched
    /\ requests' = other.requests
    /\ res' = other.res
    /\ pr' = other.pr
    /\ node' = other.node
    /\ reviewedUsers' = other.reviewedUsers
    /\ commentedUsers' = other.commentedUsers
    /\ leaderboard' = other.leaderboard
    /\ stalePRs' = other.stalePRs
    /\ now' = other.now
    /\ result' = other.result
    /\ served' = other.served
    /\ alone' = other.alone
    /\ UNCHANGED <<localStorage, ledger, rest>>

\* getRescueLeaderboard(7, 'days', true), the call of the pair
PairRescueLeaderboard ==
    /\ getRescueLeaderboard
    /\ op'.minAge = 7 /\ op'.timeUnit = "days" /\ op'.countComments

\* the PR nodes of the two runs together stay within MaxPRs
NextPairPR ==
    /\ served.prs + other.served.prs < MaxPRs
    /\ BeginPR

\* review nodes of the pair: alice approves, bob comments, 14 days after
\* the creation of the PR
PairReviews ==
    IF op.name = "getLeaderboard"
    THEN {r \in LeaderboardReviews :
              <<r.author, r.state>> \in {<<"alice", "APPROVED">>,
                                         <<"bob", "COMMENTED">>}}
    ELSE {r \in RescueReviews :
              /\ <<r.author, r.state>> \in {<<"alice", "APPROVED">>,
                                            <<"bob", "COMMENTED">>}
              /\ r.submittedAt = pr.createdAt + 14 * MsPerDay}

\* the review and comment nodes of the two runs together stay within
\* MaxEvents
NextPairReview ==
    /\ pc = "reviews"
    /\ served.events + other.served.events < MaxEvents
    /\ \E review \in PairReviews :
          IF op.name = "getLeaderboard" THEN LeaderboardReviewStep(review)
          ELSE RescueReviewStep(review)

\* comment nodes of the pair: alice comments 14 days after the creation
PairComments ==
    IF op.name = "getLeaderboard"
    THEN {c \in LeaderboardComments : c.author = "alice"}
    ELSE {c \in RescueComments :
              /\ c.author = "alice"
              /\ c.createdAt = pr.createdAt + 14 * MsPerDay}

NextPairComment ==
    /\ pc = "comments"
    /\ served.events + other.served.events < MaxEvents
    /\ \E comment \in PairComments :
          IF op.name = "getLeaderboard" THEN LeaderboardCommentStep(comment)
          ELSE RescueCommentStep(comment)

\* getTopReviewers(1), the call of the pair made through a caller
PairTopReviewers ==
    /\ getTopReviewers
    /\ op'.limit = 1

NextPair ==
    \/ getLeaderboard
    \/ PairRescueLeaderboard
    \/ PairTopReviewers
    \/ SwitchRun
    \/ Respond
    \/ Fail
    \/ NextPairPR
    \/ NextPairReview
    \/ EndReviews
    \/ NextPairComment
    \/ EndComments
    \/ EndPage
    \/ CallerResumes
    \/ CallerRejects

\* two runs of getLeaderboard, getRescueLeaderboard and getTopReviewers on
\* one instance, interleaved at their awaits
SpecPair == Init /\ [][NextPair]_vars

----------------------------------------------------------------------------
(* RescueStatsService: rescues, streaks and the team goal in localStorage. *)
(* A date string YYYY-MM-DD is the number of its day since 1970-01-01 (the *)
(* strings are compared with === and <, which that number preserves); the  *)
(* local time zone is UTC.  lastRescueDate is <<>> for null, <<day>> for a  *)
(* date.                                                                   *)

\* last day the clock reaches
MaxDay == 10
\* calls of recordRescue
MaxRescues == 4

\* getTodayString()
getTodayString(nowMs) == nowMs \div MsPerDay
\* getYesterdayString()
getYesterdayString(nowMs) == getTodayString(nowMs) - 1
\* getWeekAgoString()
getWeekAgoString(nowMs) == getTodayString(nowMs) - 7
\* isYesterday(dateString)
isYesterday(dateString, nowMs) == dateString = <<getYesterdayString(nowMs)>>

\* the statistics getStats returns when nothing is stored
NewRescueStats ==
    [totalRescues |-> 0, rescuesToday |-> 0, rescuesThisWeek |-> 0,
     currentStreak |-> 0, longestStreak |-> 0, lastRescueDate |-> <<>>]

\* updateTimePeriods(stats)
updateTimePeriods(stats, nowMs) ==
    IF stats.lastRescueDate = <<>> THEN stats
    ELSE LET daily == IF stats.lastRescueDate # <<getTodayString(nowMs)>>
                      THEN [stats EXCEPT !.rescuesToday = 0] ELSE stats
         IN IF stats.lastRescueDate[1] < getWeekAgoString(nowMs)
            THEN [daily EXCEPT !.rescuesThisWeek = 0] ELSE daily

\* getStats()
getStats(storage, nowMs) ==
    IF storage.pr_rescue_stats = <<>> THEN NewRescueStats
    ELSE updateTimePeriods(storage.pr_rescue_stats[1], nowMs)

\* mutant: a continued streak does not raise longestStreak
StatsAfterRescueLongestKept(stats, nowMs) ==
    LET today == <<getTodayString(nowMs)>>
        lastRescue == stats.lastRescueDate
        counted == [stats EXCEPT !.totalRescues = @ + 1,
                                 !.rescuesToday = @ + 1,
                                 !.rescuesThisWeek = @ + 1,
                                 !.lastRescueDate = today]
    IN IF lastRescue = <<>>
       THEN [counted EXCEPT !.currentStreak = 1, !.longestStreak = 1]
       ELSE IF lastRescue = today THEN counted
       ELSE IF isYesterday(lastRescue, nowMs)
       THEN [counted EXCEPT !.currentStreak = @ + 1]
       ELSE [counted EXCEPT !.currentStreak = 1]

\* recordRescue: the statistics that are saved and returned
StatsAfterRescue(stats, nowMs) ==
    LET today == <<getTodayString(nowMs)>>
        lastRescue == stats.lastRescueDate
        counted == [stats EXCEPT !.totalRescues = @ + 1,
                                 !.rescuesToday = @ + 1,
                                 !.rescuesThisWeek = @ + 1,
                                 !.lastRescueDate = today]
        Max(a, b) == IF a >= b THEN a ELSE b
    IN IF lastRescue = <<>>
       THEN [counted EXCEPT !.currentStreak = 1, !.longestStreak = 1]
       ELSE IF lastRescue = today THEN counted
       ELSE IF isYesterday(lastRescue, nowMs)
       THEN [counted EXCEPT
                !.currentStreak = @ + 1,
                !.longestStreak = Max(@, stats.currentStreak + 1)]
       ELSE [counted EXCEPT !.currentStreak = 1]

\* now.getDay() of a day: 0 is Sunday, 1970-01-01 was a Thursday
getDay(day) == (day + 4) % 7

\* createNewTeamGoal(period, target); endsAt is the day whose 23:59:59.999
\* ends the goal
createNewTeamGoal(period, target, nowMs) ==
    LET today == getTodayString(nowMs)
        untilSunday == (7 - getDay(today)) % 7
        daysUntilSunday == IF untilSunday = 0 THEN 7 ELSE untilSunday
    IN [target |-> target, current |-> 0, period |-> period,
        startsAt |-> today,
        endsAt |-> IF period = "daily" THEN today
                   ELSE today + daysUntilSunday]

\* getTeamGoal(): the goal returned, which is also the one stored when a
\* new one was created
getTeamGoal(storage, nowMs) ==
    IF storage.team_goal # <<>>
    THEN IF getTodayString(nowMs) > storage.team_goal[1].endsAt
         THEN createNewTeamGoal(storage.team_goal[1].period,
                                storage.team_goal[1].target, nowMs)
         ELSE storage.team_goal[1]
    ELSE createNewTeamGoal("weekly", 30, nowMs)

\* incrementTeamGoal(): the goal stored
GoalAfterIncrement(storage, nowMs) ==
    LET goal == getTeamGoal(storage, nowMs)
    IN [goal EXCEPT !.current =
                        IF @ + 1 <= goal.target THEN @ + 1 ELSE goal.target]

\* op.name in the calls of RescueStatsService
StreakOps ==
    {"none", "recordRescue", "checkStreak", "getStats", "getTeamGoal",
     "reset"}

\* RescueStatsService.recordRescue(prNumber)
recordRescue ==
    /\ op.name \in StreakOps
    /\ getStats(localStorage, now).totalRescues < MaxRescues
    /\ op' = [NoOp EXCEPT !.name = "recordRescue"]
    /\ localStorage' =
          [localStorage EXCEPT
              !.pr_rescue_stats =
                  <<StatsAfterRescue(getStats(localStorage, now), now)>>,
              !.team_goal = <<GoalAfterIncrement(localStorage, now)>>]
    /\ result' = [kind |-> "returned",
                  value |-> StatsAfterRescue(getStats(localStorage, now), now)]
    /\ UNCHANGED <<pc, cursor, pagesFetched, requests, res, pr, node,
                   reviewedUsers, commentedUsers, leaderboard, stalePRs, now,
                   served, alone, other, ledger, rest>>

\* RescueStatsService.checkStreak()
checkStreak ==
    LET stats == getStats(localStorage, now)
        lapsed == /\ stats.lastRescueDate # <<>>
                  /\ stats.lastRescueDate # <<getTodayString(now)>>
                  /\ stats.lastRescueDate # <<getYesterdayString(now)>>
        active == stats.lastRescueDate # <<>> /\ ~lapsed
        broken == lapsed /\ stats.currentStreak > 0
    IN /\ op.name \in StreakOps
       /\ op' = [NoOp EXCEPT !.name = "checkStreak"]
       /\ localStorage' =
             IF broken
             THEN [localStorage EXCEPT
                      !.pr_rescue_stats =
                          <<[stats EXCEPT !.currentStreak = 0]>>]
             ELSE localStorage
       /\ result' = [kind |-> "returned",
                     value |-> [isActive |-> active, broken |-> broken]]
       /\ UNCHANGED <<pc, cursor, pagesFetched, requests, res, pr, node,
                      reviewedUsers, commentedUsers, leaderboard, stalePRs,
                      now, served, alone, other, ledger, rest>>

\* RescueStatsService.getStats(), called from outside
CallGetStats ==
    /\ op.name \in StreakOps
    /\ op' = [NoOp EXCEPT !.name = "getStats"]
    /\ result' = [kind |-> "returned", value |-> getStats(localStorage, now)]
    /\ UNCHANGED <<pc, cursor, pagesFetched, requests, res, pr, node,
                   reviewedUsers, commentedUsers, leaderboard, stalePRs, now,
                   served, alone, other, localStorage, ledger, rest>>

\* RescueStatsService.getTeamGoal(), called from outside: a goal is
\* created and stored when none is stored or the stored one has expired
CallGetTeamGoal ==
    /\ op.name \in StreakOps
    /\ op' = [NoOp EXCEPT !.name = "getTeamGoal"]
    /\ localStorage' =
          [localStorage EXCEPT
              !.team_goal = <<getTeamGoal(localStorage, now)>>]
    /\ result' = [kind |-> "returned",
                  value |-> getTeamGoal(localStorage, now)]
    /\ UNCHANGED <<pc, cursor, pagesFetched, requests, res, pr, node,
                   reviewedUsers, commentedUsers, leaderboard, stalePRs, now,
                   served, alone, other, ledger, rest>>

\* RescueStatsService.reset()
RescueStatsReset ==
    /\ op.name \in StreakOps
    /\ op' = [NoOp EXCEPT !.name = "reset"]
    /\ localStorage' = [localStorage EXCEPT !.pr_rescue_stats = <<>>,
                                            !.team_goal = <<>>]
    /\ result' = [kind |-> "returned", value |-> <<>>]
    /\ UNCHANGED <<pc, cursor, pagesFetched, requests, res, pr, node,
                   reviewedUsers, commentedUsers, leaderboard, stalePRs, now,
                   served, alone, other, ledger, rest>>

\* days by which the calendar advances between two calls
DaySteps == {1, 2, 8}

\* the calendar day advances
NextDay ==
    \E days \in DaySteps :
        /\ op.name \in StreakOps
        /\ getTodayString(now) + days <= MaxDay
        /\ now' = now + days * MsPerDay
        /\ UNCHANGED <<op, pc, cursor, pagesFetched, requests, res, pr, node,
                       reviewedUsers, commentedUsers, leaderboard, stalePRs,
                       result, served, alone, other, localStorage, ledger, rest>>

NextStreak ==
    \/ recordRescue
    \/ checkStreak
    \/ CallGetStats
    \/ CallGetTeamGoal
    \/ RescueStatsReset
    \/ NextDay

\* calls of RescueStatsService over the days
SpecStreak == Init /\ [][NextStreak]_vars

----------------------------------------------------------------------------
(* XPSystem and GitHubActivityTracker.syncXP.  The snapshots object is the *)
(* sequence of its entries; a stored value v is <<v>>, a missing one <<>>. *)

\* calls of syncXP
MaxSyncs == 3
\* calls of XPSystem made from outside syncXP
MaxXPCalls == 1
\* largest rescueCount GitHub reports for the user
MaxReported == 1

\* XP_REWARDS[action]
XPReward(action) ==
    CASE action = "CRITICAL_RESCUE" -> 100
      [] action = "URGENT_RESCUE" -> 50
      [] action = "WARNING_RESCUE" -> 25
      [] action = "APPROVAL" -> 30
      [] action = "CHANGES_REQUESTED" -> 20
      [] action = "COMMENT" -> 10
      [] action = "ROULETTE_BONUS" -> 50
      [] action = "FIRST_RESCUE_OF_DAY" -> 25
      [] action = "STREAK_BONUS" -> 10

\* keyof typeof XPSystem.XP_REWARDS
XPRewardKeys ==
    XPActions \cup {"ROULETTE_BONUS", "FIRST_RESCUE_OF_DAY", "STREAK_BONUS"}

\* LEVELS[i].xpRequired of level i
LevelXP == <<0, 100, 250, 500, 1000, 2000, 4000, 8000, 15000, 30000>>

\* calculateLevel(xp).level
calculateLevel(xp) ==
    LET reached == {i \in 1..Len(LevelXP) : xp >= LevelXP[i]}
    IN IF reached = {} THEN 1
       ELSE CHOOSE i \in reached : \A j \in reached : j <= i

\* localStorage after getUserXP(): createNewUser stores a user when none
\* is stored
StorageAfterGetUserXP(storage) ==
    IF storage.user_xp = <<>>
    THEN [storage EXCEPT !.user_xp = <<[currentXP |-> 0, totalRescues |-> 0]>>]
    ELSE storage

\* getUserXP().level
LevelOf(storage) ==
    IF storage.user_xp = <<>> THEN 1
    ELSE calculateLevel(storage.user_xp[1].currentXP)

\* localStorage after awardXP(action, multiplier)
StorageAfterAward(storage, action, multiplier) ==
    LET seen == StorageAfterGetUserXP(storage)
        data == seen.user_xp[1]
    IN [seen EXCEPT !.user_xp =
            <<[currentXP |-> data.currentXP + XPReward(action) * multiplier,
               totalRescues |-> data.totalRescues + 1]>>]

\* localStorage after `for (let i = 0; i < n; i++) awardXP(action)`
RECURSIVE StorageAfterAwards(_, _, _)
StorageAfterAwards(storage, action, n) ==
    IF n <= 0 THEN storage
    ELSE StorageAfterAwards(StorageAfterAward(storage, action, 1), action,
                            n - 1)

\* the awards of syncXP in the order of the code: action, the counter of
\* RescuerStats and of the snapshot it follows, the words pushed to
\* newActivities
SyncOrder ==
    <<[action |-> "CRITICAL_RESCUE", counter |-> "criticalRescues",
       words |-> "critical rescue"],
      [action |-> "URGENT_RESCUE", counter |-> "urgentRescues",
       words |-> "urgent rescue"],
      [action |-> "WARNING_RESCUE", counter |-> "warningRescues",
       words |-> "warning rescue"],
      [action |-> "APPROVAL", counter |-> "approvals",
       words |-> "approval"],
      [action |-> "CHANGES_REQUESTED", counter |-> "changesRequested",
       words |-> "change request"],
      [action |-> "COMMENT", counter |-> "comments", words |-> "comment"]>>

\* getLastSnapshot(username): <<>> for null
getLastSnapshot(storage, username) ==
    IF storage.github_activity_snapshot = <<>> THEN <<>>
    ELSE LET snapshots == storage.github_activity_snapshot[1]
         IN IF Has(snapshots, username)
            THEN <<snapshots[IndexOf(snapshots, username)]>>
            ELSE <<>>

\* the awards syncXP makes for a counter: Math.max(0, current - last) with
\* a snapshot, the whole counter without
NewSince(lastSnapshot, stats, counter) ==
    IF lastSnapshot = <<>> THEN stats[counter]
    ELSE IF stats[counter] - lastSnapshot[1][counter] > 0
         THEN stats[counter] - lastSnapshot[1][counter]
         ELSE 0

\* localStorage after the awards of the first k entries of SyncOrder
RECURSIVE StorageAfterSync(_, _, _, _)
StorageAfterSync(storage, lastSnapshot, stats, k) ==
    IF k = 0 THEN storage
    ELSE StorageAfterAwards(
             StorageAfterSync(storage, lastSnapshot, stats, k - 1),
             SyncOrder[k].action,
             NewSince(lastSnapshot, stats, SyncOrder[k].counter))

\* totalXPGained after the first k entries of SyncOrder
RECURSIVE XPGainedBySync(_, _, _)
XPGainedBySync(lastSnapshot, stats, k) ==
    IF k = 0 THEN 0
    ELSE XPGainedBySync(lastSnapshot, stats, k - 1)
            + NewSince(lastSnapshot, stats, SyncOrder[k].counter)
                * XPReward(SyncOrder[k].action)

\* newActivities after the first k entries of SyncOrder, with a snapshot
RECURSIVE NewActivities(_, _, _)
NewActivities(lastSnapshot, stats, k) ==
    IF k = 0 THEN <<>>
    ELSE LET n == NewSince(lastSnapshot, stats, SyncOrder[k].counter)
             before == NewActivities(lastSnapshot, stats, k - 1)
         IN IF n > 0
            THEN Append(before, <<n, SyncOrder[k].words,
                                  IF n > 1 THEN "s" ELSE "">>)
            ELSE before

\* localStorage after saveSnapshot(username, stats)
StorageAfterSnapshot(storage, username, stats, nowMs) ==
    LET snapshots == IF storage.github_activity_snapshot = <<>> THEN <<>>
                     ELSE storage.github_activity_snapshot[1]
        snapshot == [username |-> stats.username,
                     totalRescues |-> stats.rescueCount,
                     criticalRescues |-> stats.criticalRescues,
                     urgentRescues |-> stats.urgentRescues,
                     warningRescues |-> stats.warningRescues,
                     approvals |-> stats.approvals,
                     changesRequested |-> stats.changesRequested,
                     comments |-> stats.comments,
                     lastChecked |-> nowMs]
    IN [storage EXCEPT !.github_activity_snapshot =
            <<IF Has(snapshots, username)
              THEN [snapshots EXCEPT ![IndexOf(snapshots, username)] = snapshot]
              ELSE Append(snapshots, snapshot)>>]

\* the entries of the user that getTopRescuers can hold: counters within
\* MaxReported that obey the sums of RescuerStats (points is not read by
\* syncXP and left out)
Reports ==
    {r \in [username : {"alice"},
            rescueCount : 1..MaxReported,
            criticalRescues : 0..MaxReported,
            urgentRescues : 0..MaxReported,
            warningRescues : 0..MaxReported,
            approvals : 0..MaxReported,
            changesRequested : 0..MaxReported,
            comments : 0..MaxReported] :
        /\ r.rescueCount =
              r.criticalRescues + r.urgentRescues + r.warningRescues
        /\ r.rescueCount = r.approvals + r.changesRequested + r.comments}

\* what `await github.getTopRescuers(...)` and `rescuers.find(...)` give:
\* a rejection, no entry of the user, or the user's entry
SyncOutcomes ==
    {[kind |-> "rejected"], [kind |-> "absent"]}
        \cup {[kind |-> "found", stats |-> r] : r \in Reports}

\* the history after a sync that found stats
LedgerAfterSync(lastSnapshot, stats) ==
    [syncs |-> ledger.syncs, calls |-> ledger.calls,
     granted |->
        [a \in XPActions |->
            LET k == CHOOSE i \in 1..Len(SyncOrder) : SyncOrder[i].action = a
            IN ledger.granted[a]
                 + NewSince(lastSnapshot, stats, SyncOrder[k].counter)],
     reported |->
        [a \in XPActions |->
            LET k == CHOOSE i \in 1..Len(SyncOrder) : SyncOrder[i].action = a
                n == stats[SyncOrder[k].counter]
            IN IF n > ledger.reported[a] THEN n ELSE ledger.reported[a]]]

\* op.name in the calls of XPSystem and GitHubActivityTracker
SyncOps == {"none", "syncXP"}

\* what no step of XPSystem and GitHubActivityTracker writes
SyncElsewhere ==
    UNCHANGED <<cursor, pagesFetched, requests, pr, node, reviewedUsers,
                commentedUsers, leaderboard, stalePRs, now, served, alone,
                other, rest>>

\* GitHubActivityTracker.syncXP({username: 'alice'}), up to `await
\* github.getTopRescuers(...)`: the promise is pending, localStorage has
\* not been read
syncXP ==
    /\ op.name \in SyncOps
    /\ pc \in {"idle", "done"}
    /\ ledger.syncs < MaxSyncs
    /\ op' = [NoOp EXCEPT !.name = "syncXP"]
    /\ pc' = "await"
    /\ result' = Pending
    /\ ledger' = [ledger EXCEPT !.syncs = @ + 1]
    /\ UNCHANGED <<res, localStorage>>
    /\ SyncElsewhere

\* syncXP goes on after its await, on the localStorage of that moment, to
\* the settling of its promise
SyncXPResumes ==
    \E outcome \in SyncOutcomes :
        /\ op.name = "syncXP"
        /\ pc = "await"
        /\ pc' = "done"
        /\ res' = <<outcome>>
        /\ IF outcome.kind # "found"
           THEN /\ result' = [kind |-> "fulfilled",
                              value |-> [xpGained |-> 0,
                                         newActivities |-> <<>>]]
                /\ UNCHANGED <<localStorage, ledger>>
           ELSE LET stats == outcome.stats
                    lastSnapshot == getLastSnapshot(localStorage, "alice")
                    levelBefore == LevelOf(localStorage)
                    awarded ==
                        StorageAfterSync(StorageAfterGetUserXP(localStorage),
                                         lastSnapshot, stats, Len(SyncOrder))
                    levelAfter == LevelOf(awarded)
                IN /\ localStorage' =
                         StorageAfterSnapshot(awarded, "alice", stats, now)
                   /\ result' =
                         [kind |-> "fulfilled",
                          value |->
                            [xpGained |->
                                XPGainedBySync(lastSnapshot, stats,
                                               Len(SyncOrder)),
                             newActivities |->
                                IF lastSnapshot = <<>>
                                THEN <<<<"Initial sync complete">>>>
                                ELSE NewActivities(lastSnapshot, stats,
                                                   Len(SyncOrder)),
                             leveledUp |-> levelAfter > levelBefore,
                             newLevel |-> IF levelAfter > levelBefore
                                          THEN <<levelAfter>> ELSE <<>>]]
                   /\ ledger' = LedgerAfterSync(lastSnapshot, stats)
        /\ UNCHANGED op
        /\ SyncElsewhere

\* a call made by another callback, before, between or while a sync
\* waits: it leaves the sync's position and promise alone
OutsideCall(storage) ==
    /\ op.name \in SyncOps
    /\ ledger.calls < MaxXPCalls
    /\ localStorage' = storage
    /\ ledger' = [ledger EXCEPT !.calls = @ + 1]
    /\ UNCHANGED <<op, pc, res, result>>
    /\ SyncElsewhere

\* XPSystem.getUserXP(), called from outside
CallGetUserXP == OutsideCall(StorageAfterGetUserXP(localStorage))

\* XPSystem.awardXP(action, multiplier), called from outside
CallAwardXP ==
    \E action \in XPRewardKeys, multiplier \in {1, 2} :
        OutsideCall(StorageAfterAward(localStorage, action, multiplier))

\* XPSystem.awardRescueXP(urgency, isRoulette)
awardRescueXP ==
    \E urgency \in {"critical", "urgent", "warning"}, isRoulette \in BOOLEAN :
        LET action == CASE urgency = "critical" -> "CRITICAL_RESCUE"
                        [] urgency = "urgent" -> "URGENT_RESCUE"
                        [] OTHER -> "WARNING_RESCUE"
            gained == StorageAfterAward(localStorage, action, 1)
        IN OutsideCall(IF isRoulette
                       THEN StorageAfterAward(gained, "ROULETTE_BONUS", 1)
                       ELSE gained)

\* XPSystem.reset()
XPSystemReset ==
    /\ op.name \in SyncOps
    /\ localStorage' = [localStorage EXCEPT !.user_xp = <<>>]
    /\ UNCHANGED <<op, pc, res, result, ledger>>
    /\ SyncElsewhere

\* GitHubActivityTracker.reset()
TrackerReset ==
    /\ op.name \in SyncOps
    /\ localStorage' =
          [localStorage EXCEPT !.github_activity_snapshot = <<>>]
    /\ UNCHANGED <<op, pc, res, result, ledger>>
    /\ SyncElsewhere

NextSync ==
    \/ syncXP
    \/ SyncXPResumes
    \/ CallGetUserXP
    \/ CallAwardXP
    \/ awardRescueXP
    \/ XPSystemReset
    \/ TrackerReset

\* calls of syncXP for one user, and the other calls that write the
\* storage it reads
SpecSync == Init /\ [][NextSync]_vars

----------------------------------------------------------------------------
(* The REST GithubService: fetchPRsWithoutActivitySince and                 *)
(* getReviewerStats.  Every awaited request settles in a step of its own;   *)
(* rest.pr is <<>> or <<the PR of the turn>>, with what the PR has at the   *)
(* source as far as the requests of the turn have asked for it.             *)

\* PRs the list requests of one run return
MaxRestPRs == 2
\* reviews, comments and reactions one PR has at the source, each
MaxRestItems == 1

\* Date.now() of the run
RestNow == 10 * MsPerDay
\* pr.created_at: 1 ms old, 2 days and 1 ms old, 5 days old
RestCreatedTimes == {RestNow - 1, RestNow - 2 * MsPerDay - 1,
                     RestNow - 5 * MsPerDay}
\* minAgeDays
RestMinAges == {1, 3}
\* the time between two reads of the clock by calculateAgeDays
RestDelays == {0, MsPerDay}

\* review.user?.login, comment.user?.login, reaction.user?.login
RestItems == [user : Authors]
RestReviews == [state : ReviewStates, user : Authors]

\* the sequences over items of length at most MaxRestItems
RestLists(items) ==
    UNION {[1..n -> items] : n \in 0..MaxRestItems}

\* what a request settles to
RestOutcomes(items) ==
    {[kind |-> "rejected"]}
        \cup {[kind |-> "resolved", data |-> l] : l \in RestLists(items)}

\* calculateAgeDays(createdAt) at the clock nowMs
calculateAgeDays(createdAt, nowMs) ==
    LET diffTime == IF nowMs - createdAt >= 0 THEN nowMs - createdAt
                    ELSE createdAt - nowMs
    IN (diffTime + MsPerDay - 1) \div MsPerDay

\* fetchPRReviews, fetchPRComments, fetchPRReactions: the data of the
\* response, [] when the request fails
fetchOrEmpty(outcome) ==
    IF outcome.kind = "rejected" THEN <<>> ELSE outcome.data

\* reviews.filter(r => r.state === 'APPROVED' ||
\*                     r.state === 'CHANGES_REQUESTED')
meaningfulReviews(reviews) ==
    SelectSeq(reviews,
              LAMBDA r : r.state = "APPROVED" \/ r.state = "CHANGES_REQUESTED")

\* prsWithoutActivity after the end of the loop body for the PR p of age
\* ageDays >= minAgeDays, with the reviews and comments fetched for it
ActivityAfterPR(found, p, ageDays, reviews, comments) ==
    IF Len(meaningfulReviews(reviews)) = 0 /\ Len(comments) = 0
    THEN Append(found, [pr |-> p,
                        reviews |-> meaningfulReviews(reviews),
                        ageDays |-> ageDays,
                        hasReviews |-> FALSE])
    ELSE found

\* the ReviewerStats a user starts with
NewReviewerEntry(username) ==
    [username |-> username, reviewCount |-> 0, approvals |-> 0,
     changesRequested |-> 0, comments |-> 0, totalComments |-> 0,
     reactions |-> 0, points |-> 0]

\* if (!reviewerMap.has(username)) reviewerMap.set(username, {...})
WithReviewer(map, username) ==
    IF Has(map, username) THEN map
    ELSE Append(map, NewReviewerEntry(username))

\* `stats.reviewCount++` and the if / else if chain
\* on review.state, which has no final else
ReviewerAfterReviewState(stats, state) ==
    LET counted == [stats EXCEPT !.reviewCount = @ + 1]
    IN CASE state = "APPROVED" ->
              [counted EXCEPT !.approvals = @ + 1, !.points = @ + 50]
         [] state = "CHANGES_REQUESTED" ->
              [counted EXCEPT !.changesRequested = @ + 1, !.points = @ + 30]
         [] state = "COMMENTED" ->
              [counted EXCEPT !.comments = @ + 1, !.points = @ + 10]
         [] OTHER -> counted

\* reviewerMap after the body of `for (const review of reviews)`
MapAfterReview(map, review) ==
    IF review.user = Null THEN map
    ELSE LET m == WithReviewer(map, review.user)
         IN [m EXCEPT ![IndexOf(m, review.user)] =
                ReviewerAfterReviewState(@, review.state)]

\* reviewerMap after the body of `for (const comment of comments)`
MapAfterComment(map, comment) ==
    IF comment.user = Null THEN map
    ELSE LET m == WithReviewer(map, comment.user)
         IN [m EXCEPT ![IndexOf(m, comment.user)] =
                [@ EXCEPT !.totalComments = @ + 1, !.points = @ + 5]]

\* reviewerMap after the body of `for (const reaction of reactions)`
MapAfterReaction(map, reaction) ==
    IF reaction.user = Null THEN map
    ELSE LET m == WithReviewer(map, reaction.user)
         IN [m EXCEPT ![IndexOf(m, reaction.user)] =
                [@ EXCEPT !.reactions = @ + 1, !.points = @ + 2]]

RECURSIVE MapAfterReviews(_, _)
MapAfterReviews(map, reviews) ==
    IF reviews = <<>> THEN map
    ELSE MapAfterReviews(MapAfterReview(map, Head(reviews)), Tail(reviews))

RECURSIVE MapAfterComments(_, _)
MapAfterComments(map, comments) ==
    IF comments = <<>> THEN map
    ELSE MapAfterComments(MapAfterComment(map, Head(comments)), Tail(comments))

RECURSIVE MapAfterReactions(_, _)
MapAfterReactions(map, reactions) ==
    IF reactions = <<>> THEN map
    ELSE MapAfterReactions(MapAfterReaction(map, Head(reactions)),
                           Tail(reactions))

\* reviewerMap after the three loops over what was fetched for one PR
MapAfterPR(map, reviews, comments, reactions) ==
    MapAfterReactions(MapAfterComments(MapAfterReviews(map, reviews),
                                       comments),
                      reactions)

\* Array.from(reviewerMap.values()).sort((a, b) => b.points - a.points)
rankedReviewers(map) == SortByPoints(map)

\* the variables no step of the REST service writes
RestElsewhere ==
    UNCHANGED <<pc, cursor, pagesFetched, requests, res, pr, node,
                reviewedUsers, commentedUsers, leaderboard, stalePRs,
                served, alone, other, localStorage, ledger>>

\* fetchPRsWithoutActivitySince(minAgeDays), up to `await
\* this.fetchAllOpenPRs()`
CallFetchPRsWithoutActivitySince ==
    \E minAgeDays \in RestMinAges :
        /\ op.name = "none"
        /\ rest.pc = "idle"
        /\ op' = [NoOp EXCEPT !.name = "fetchPRsWithoutActivitySince"]
        /\ rest' = [NoRest EXCEPT !.name = "fetchPRsWithoutActivitySince",
                                  !.pc = "list",
                                  !.minAgeDays = minAgeDays,
                                  !.prStates = <<"open">>]
        /\ now' = RestNow
        /\ UNCHANGED result
        /\ RestElsewhere

\* getReviewerStats(state), up to the first `await
\* this.octokit.rest.pulls.list(...)`
CallGetReviewerStats ==
    \E state \in {"open", "closed", "all"} :
        /\ op.name = "none"
        /\ rest.pc = "idle"
        /\ op' = [NoOp EXCEPT !.name = "getReviewerStats"]
        /\ rest' = [NoRest EXCEPT !.name = "getReviewerStats",
                                  !.pc = "list",
                                  !.state = state,
                                  !.prStates = IF state = "all"
                                               THEN <<"open", "closed">>
                                               ELSE <<state>>]
        /\ now' = RestNow
        /\ UNCHANGED result
        /\ RestElsewhere

\* the pulls.list request resolves: the loop over its PRs begins
RestListResolves ==
    /\ rest.pc = "list"
    /\ rest' = [rest EXCEPT !.pc = "loop"]
    /\ UNCHANGED <<op, now, result>>
    /\ RestElsewhere

\* the pulls.list request rejects: the catch of the method throws
RestListRejects ==
    /\ rest.pc = "list"
    /\ rest' = [rest EXCEPT !.pc = "failed"]
    /\ result' = [kind |-> "rejected",
                  value |-> IF rest.name = "getReviewerStats"
                            THEN "Failed to fetch reviewer stats"
                            ELSE "Failed to fetch PRs without activity"]
    /\ UNCHANGED <<op, now>>
    /\ RestElsewhere

\* `for (const pr of allPRs)` of fetchPRsWithoutActivitySince reaches the
\* next PR: calculateAgeDays reads the clock; a PR that is too new is
\* skipped, for another the reviews are requested
ActivityBeginPR ==
    \E created \in RestCreatedTimes, delay \in RestDelays :
        LET ageDays == calculateAgeDays(created, now + delay)
            p == [number |-> rest.listed + 1, state |-> "open",
                  created_at |-> created,
                  sourceReviews |-> <<>>, sourceComments |-> <<>>]
        IN /\ rest.name = "fetchPRsWithoutActivitySince"
           /\ rest.pc = "loop"
           /\ rest.listed < MaxRestPRs
           /\ now' = now + delay
           /\ rest' = IF ageDays < rest.minAgeDays
                      THEN [rest EXCEPT !.listed = @ + 1]
                      ELSE [rest EXCEPT !.pc = "reviews", !.pr = <<p>>,
                                        !.ageDays = ageDays]
           /\ UNCHANGED <<op, result>>
           /\ RestElsewhere

\* `await this.fetchPRReviews(pr.number)` settles, in either method: the PR
\* has `reviews` at the source, the request for them fails or not; the
\* comments are requested
RestReviewsSettle ==
    \E reviews \in RestLists(RestReviews), fails \in BOOLEAN :
        /\ rest.pc = "reviews"
        /\ rest' = [rest EXCEPT
                      !.pc = "comments",
                      !.pr = <<[@[1] EXCEPT !.sourceReviews = reviews]>>,
                      !.reviews =
                          fetchOrEmpty(IF fails THEN [kind |-> "rejected"]
                                       ELSE [kind |-> "resolved",
                                             data |-> reviews])]
        /\ UNCHANGED <<op, now, result>>
        /\ RestElsewhere

\* `await this.fetchPRComments(pr.number)` of fetchPRsWithoutActivitySince
\* settles; the rest of the loop body runs
ActivityCommentsSettle ==
    \E comments \in RestLists(RestItems), fails \in BOOLEAN :
        LET p == [rest.pr[1] EXCEPT !.sourceComments = comments]
            fetched == fetchOrEmpty(IF fails THEN [kind |-> "rejected"]
                                    ELSE [kind |-> "resolved",
                                          data |-> comments])
        IN /\ rest.name = "fetchPRsWithoutActivitySince"
           /\ rest.pc = "comments"
           /\ rest' = [rest EXCEPT
                         !.pc = "loop",
                         !.listed = @ + 1,
                         !.pr = <<>>,
                         !.reviews = <<>>,
                         !.prsWithoutActivity =
                             ActivityAfterPR(@, p, rest.ageDays, rest.reviews,
                                             fetched)]
           /\ UNCHANGED <<op, now, result>>
           /\ RestElsewhere

\* the list is exhausted: return prsWithoutActivity
ActivityReturn ==
    /\ rest.name = "fetchPRsWithoutActivitySince"
    /\ rest.pc = "loop"
    /\ rest' = [rest EXCEPT !.pc = "done"]
    /\ result' = [kind |-> "fulfilled", value |-> rest.prsWithoutActivity]
    /\ UNCHANGED <<op, now>>
    /\ RestElsewhere

\* `for (const pr of prs)` of getReviewerStats reaches the next PR: its
\* reviews are requested
ReviewerBeginPR ==
    /\ rest.name = "getReviewerStats"
    /\ rest.pc = "loop"
    /\ rest.listed < MaxRestPRs
    /\ rest' = [rest EXCEPT
                  !.pc = "reviews",
                  !.pr = <<[number |-> rest.listed + 1,
                            state |-> Head(rest.prStates),
                            sourceReviews |-> <<>>, sourceComments |-> <<>>]>>]
    /\ UNCHANGED <<op, now, result>>
    /\ RestElsewhere

\* `await this.fetchPRComments(pr.number)` of getReviewerStats settles; the
\* reactions are requested
ReviewerCommentsSettle ==
    \E outcome \in RestOutcomes(RestItems) :
        /\ rest.name = "getReviewerStats"
        /\ rest.pc = "comments"
        /\ rest' = [rest EXCEPT !.pc = "reactions",
                                !.comments = fetchOrEmpty(outcome)]
        /\ UNCHANGED <<op, now, result>>
        /\ RestElsewhere

\* `await this.fetchPRReactions(pr.number)` settles; the three loops over
\* what was fetched run
ReviewerReactionsSettle ==
    \E outcome \in RestOutcomes(RestItems) :
        /\ rest.name = "getReviewerStats"
        /\ rest.pc = "reactions"
        /\ rest' = [rest EXCEPT
                      !.pc = "loop",
                      !.listed = @ + 1,
                      !.pr = <<>>,
                      !.reviews = <<>>,
                      !.comments = <<>>,
                      !.reviewerMap =
                          MapAfterPR(@, rest.reviews, rest.comments,
                                     fetchOrEmpty(outcome))]
        /\ UNCHANGED <<op, now, result>>
        /\ RestElsewhere

\* the PRs of one state are exhausted: list the next state, or sort and
\* return
ReviewerEndState ==
    /\ rest.name = "getReviewerStats"
    /\ rest.pc = "loop"
    /\ IF Len(rest.prStates) > 1
       THEN /\ rest' = [rest EXCEPT !.prStates = Tail(@), !.pc = "list"]
            /\ UNCHANGED result
       ELSE /\ rest' = [rest EXCEPT !.prStates = Tail(@), !.pc = "done"]
            /\ result' = [kind |-> "fulfilled",
                          value |-> rankedReviewers(rest.reviewerMap)]
    /\ UNCHANGED <<op, now>>
    /\ RestElsewhere

NextActivity ==
    \/ CallFetchPRsWithoutActivitySince
    \/ RestListResolves
    \/ RestListRejects
    \/ ActivityBeginPR
    \/ RestReviewsSettle
    \/ ActivityCommentsSettle
    \/ ActivityReturn

\* one run of fetchPRsWithoutActivitySince
SpecActivity == Init /\ [][NextActivity]_vars

NextReviewers ==
    \/ CallGetReviewerStats
    \/ RestListResolves
    \/ RestListRejects
    \/ ReviewerBeginPR
    \/ RestReviewsSettle
    \/ ReviewerCommentsSettle
    \/ ReviewerReactionsSettle
    \/ ReviewerEndState

\* one run of getReviewerStats
SpecReviewers == Init /\ [][NextReviewers]_vars

----------------------------------------------------------------------------
(* Properties of the page loop *)

\* the source answered every page read so far with hasNextPage true
AllHaveNext == \A i \in 1..Len(served.pages) : served.pages[i]

\* the loop of the run has ended: the run has settled, or its caller is
\* about to go on
LoopEnded == pc \in {"returned", "done"}

\* C1: a run issues at most 6 page requests and none after a response whose
\* hasNextPage is false: a source of k <= 6 pages (its k-th response is the
\* first with hasNextPage false) gets exactly k requests, and a source that
\* still reports a next page on the 6th response (20 pages, say) exactly 6.
C1_PageCeiling ==
    /\ requests <= 6
    /\ \A k \in 1..Len(served.pages) :
          ~served.pages[k] => LoopEnded /\ requests = k
    /\ LoopEnded /\ AllHaveNext => requests = 6 /\ Len(served.pages) = 6

\* a finished run of fetchStalePRs on a source with more than 6 pages
C1_Witness ==
    /\ op.name = "fetchStalePRs"
    /\ pc = "done"
    /\ Len(served.pages) = 6
    /\ AllHaveNext
    /\ requests = 6

\* C2: when a page request fails the run fails with that error: the failed
\* request is the last one issued (no retry) and the run's promise never
\* holds an array.  It is rejected with the error, at once for a direct
\* call, and for a call through getTopReviewers, getTopRescuers or
\* getTop10MostNeglectedPRs pending until the caller's await has thrown.
C2_FailureSurfaces ==
    served.error # Null =>
        /\ pc \in {"thrown", "failed"}
        /\ IF pc = "thrown"
           THEN HasCaller /\ result = Pending
           ELSE result = [kind |-> "rejected", value |-> served.error]
        /\ requests = Len(served.pages) + 1

\* getTop10MostNeglectedPRs fails on its second request, after PR nodes of
\* the first page were accepted
C2_Witness ==
    /\ op.name = "getTop10MostNeglectedPRs"
    /\ pc = "failed"
    /\ requests = 2
    /\ served.prs > 0
    /\ result.kind = "rejected"

----------------------------------------------------------------------------
(* Properties of getLeaderboard *)

\* the entry of username, or the one getOrCreateReviewer would create
ReviewerOf(map, username) ==
    IF Has(map, username) THEN map[IndexOf(map, username)]
    ELSE NewReviewerStats(username)

\* a step that iterates one review node
ReviewIterated == pc' = "reviews" /\ served'.events = served.events + 1

\* a step that iterates one comment node
CommentIterated == pc' = "comments" /\ served'.events = served.events + 1

\* an entry after one review of the given disposition is counted
CountedOnce(stats, state) ==
    [stats EXCEPT
        !.reviewCount = @ + 1,
        !.approvals = IF state = "APPROVED" THEN @ + 1 ELSE @,
        !.changesRequested = IF state = "CHANGES_REQUESTED" THEN @ + 1 ELSE @,
        !.comments =
            IF state \notin {"APPROVED", "CHANGES_REQUESTED"} THEN @ + 1 ELSE @,
        !.points = @ + (IF state = "APPROVED" THEN 50
                        ELSE IF state = "CHANGES_REQUESTED" THEN 30 ELSE 10)]

\* C3: in getLeaderboard a review node changes the statistics only when it
\* is its author's first review node of the PR; then the author's reviewCount
\* grows by 1 and the counter and points of that node's state are added.
\* Every later review node of that author on the PR changes nothing.
C3_FirstReviewCounts ==
    [][ReviewIterated =>
        LET u == node'.author IN
        /\ \A v \in Users \ {u} :
              ReviewerOf(leaderboard', v) = ReviewerOf(leaderboard, v)
        /\ u # Null =>
              ReviewerOf(leaderboard', u) =
                 IF u \notin pr.reviewsBy
                 THEN CountedOnce(ReviewerOf(leaderboard, u), node'.state)
                 ELSE ReviewerOf(leaderboard, u)
        /\ u = Null => leaderboard' = leaderboard]_vars

\* alice's second review node of the first PR has been iterated, with a
\* state other than that of her counted review
C3_Witness ==
    /\ op.name = "getLeaderboard"
    /\ pc = "reviews"
    /\ served.prs = 1
    /\ node.author = "alice"
    /\ node.state = "CHANGES_REQUESTED"
    /\ served.events = 2
    /\ "alice" \in pr.reviewsBy
    /\ ReviewerOf(leaderboard, "alice").reviewCount = 1
    /\ ReviewerOf(leaderboard, "alice").approvals = 1

ReviewerSumHolds(stats) ==
    stats.reviewCount = stats.approvals + stats.changesRequested + stats.comments

\* C4: in every state of getLeaderboard, so after any prefix of the review
\* and comment nodes, and in its result, every entry has
\* reviewCount = approvals + changesRequested + comments.
C4_ReviewerSum ==
    op.name = "getLeaderboard" =>
        /\ \A i \in 1..Len(leaderboard) : ReviewerSumHolds(leaderboard[i])
        /\ result.kind = "fulfilled" =>
              \A i \in 1..Len(result.value) : ReviewerSumHolds(result.value[i])

\* a review of a state outside the three known ones has been counted
C4_Witness ==
    /\ op.name = "getLeaderboard"
    /\ pc = "reviews"
    /\ node.author = "bob"
    /\ node.state = "DISMISSED"
    /\ "bob" \in pr.reviewsBy
    /\ ReviewerOf(leaderboard, "bob").reviewCount = 1
    /\ ReviewerOf(leaderboard, "bob").comments = 1

----------------------------------------------------------------------------
(* Properties of getRescueLeaderboard *)

\* the entry of username, or the one getOrCreateRescuer would create
RescuerOf(map, username) ==
    IF Has(map, username) THEN map[IndexOf(map, username)]
    ELSE NewRescuerStats(username)

\* milliseconds of the configured unit
MsOfUnit == IF op.timeUnit = "hours" THEN 60 * 60 * 1000 ELSE 24 * 60 * 60 * 1000

\* ageAtAction of the node iterated by the step, in milliseconds
AgeOfIterated ==
    (IF pc' = "reviews" THEN node'.submittedAt ELSE node'.createdAt)
        - pr.createdAt

\* the step credits the node it iterates
Credited == leaderboard' # leaderboard

RescuerSumHolds(stats) ==
    stats.rescueCount =
        stats.criticalRescues + stats.urgentRescues + stats.warningRescues

\* C5: every entry of getRescueLeaderboard, while it is built and in the
\* result, has rescueCount = criticalRescues + urgentRescues + warningRescues.
C5_RescuerSum ==
    op.name = "getRescueLeaderboard" =>
        /\ \A i \in 1..Len(leaderboard) : RescuerSumHolds(leaderboard[i])
        /\ result.kind = "fulfilled" =>
              \A i \in 1..Len(result.value) : RescuerSumHolds(result.value[i])

\* a result with an entry of two rescues, one of them a warning rescue
C5_Witness ==
    /\ op.name = "getRescueLeaderboard"
    /\ result.kind = "fulfilled"
    /\ \E i \in 1..Len(result.value) :
          /\ result.value[i].rescueCount = 2
          /\ result.value[i].warningRescues = 1

\* C6: a review or comment node that getRescueLeaderboard credits has
\* ageAtAction >= minAge in the configured unit; a node with
\* ageAtAction < minAge leaves the whole leaderboard as it was (no counter,
\* no points, no new entry).
C6_MinAgeGate ==
    [][(ReviewIterated \/ CommentIterated) /\ op.name = "getRescueLeaderboard" =>
        /\ Credited => AgeOfIterated >= op.minAge * MsOfUnit
        /\ AgeOfIterated < op.minAge * MsOfUnit => leaderboard' = leaderboard
      ]_vars

\* alice's first review node of a PR, 2 days after its creation with
\* minAge = 7 days, was iterated and nothing was credited
C6_Witness ==
    /\ op.name = "getRescueLeaderboard"
    /\ op.minAge = 7 /\ op.timeUnit = "days"
    /\ pc = "reviews"
    /\ node.author = "alice"
    /\ node.submittedAt - pr.createdAt = 2 * 24 * 60 * 60 * 1000
    /\ pr.reviewsBy = {"alice"}
    /\ leaderboard = <<>>

\* some entry's warningRescues grows in the step
WarningCounted ==
    \E u \in Users :
        RescuerOf(leaderboard', u).warningRescues
            > RescuerOf(leaderboard, u).warningRescues

\* C7 (as claimed): a node is counted in warningRescues only if its
\* ageAtAction is at least the warning threshold (3 days, 1 hour) and below
\* the urgent threshold (7 days, 3 hours).
C7_WarningBand ==
    [][(ReviewIterated \/ CommentIterated) /\ op.name = "getRescueLeaderboard"
            /\ WarningCounted =>
        /\ AgeOfIterated >= (IF op.timeUnit = "hours" THEN 1 ELSE 3) * MsOfUnit
        /\ AgeOfIterated < (IF op.timeUnit = "hours" THEN 3 ELSE 7) * MsOfUnit
      ]_vars

\* C8: a credited review whose ageAtAction is exactly the critical threshold
\* (14 days, 6 hours) is counted in criticalRescues and not in urgentRescues,
\* one exactly at the urgent threshold (7 days, 3 hours) in urgentRescues;
\* an APPROVED review 15 days after creation with timeUnit 'days' and
\* minAge 7 adds 1 to criticalRescues, 100 to points and 1 to approvals.
C8_ThresholdBoundary ==
    [][ReviewIterated /\ op.name = "getRescueLeaderboard" /\ Credited =>
        LET before == RescuerOf(leaderboard, node'.author)
            after == RescuerOf(leaderboard', node'.author)
        IN /\ AgeOfIterated = (IF op.timeUnit = "hours" THEN 6 ELSE 14) * MsOfUnit
                => /\ after.criticalRescues = before.criticalRescues + 1
                   /\ after.urgentRescues = before.urgentRescues
           /\ AgeOfIterated = (IF op.timeUnit = "hours" THEN 3 ELSE 7) * MsOfUnit
                => /\ after.urgentRescues = before.urgentRescues + 1
                   /\ after.criticalRescues = before.criticalRescues
           /\ ( /\ op.timeUnit = "days" /\ op.minAge = 7
                /\ node'.state = "APPROVED"
                /\ AgeOfIterated = 15 * MsOfUnit )
                => /\ after.criticalRescues = before.criticalRescues + 1
                   /\ after.points = before.points + 100
                   /\ after.approvals = before.approvals + 1
      ]_vars

\* a review exactly 14 days after creation was credited as a critical rescue
C8_Witness ==
    /\ op.name = "getRescueLeaderboard"
    /\ op.timeUnit = "days" /\ op.minAge = 7
    /\ pc = "reviews"
    /\ node.author = "alice"
    /\ node.submittedAt - pr.createdAt = 14 * 24 * 60 * 60 * 1000
    /\ served.events = 1
    /\ RescuerOf(leaderboard, "alice").criticalRescues = 1
    /\ RescuerOf(leaderboard, "alice").urgentRescues = 0

\* C9: each credited node raises exactly one tier counter of its author, and
\* the author's points by the base of that tier (critical 100, urgent 50,
\* warning 25) for an APPROVED or CHANGES_REQUESTED review, by the floor of
\* half that base (50, 25, 12) for any other review and for a plain comment.
C9_RescuePoints ==
    [][(ReviewIterated \/ CommentIterated) /\ op.name = "getRescueLeaderboard"
            /\ Credited =>
        LET before == RescuerOf(leaderboard, node'.author)
            after == RescuerOf(leaderboard', node'.author)
            critical == after.criticalRescues - before.criticalRescues
            urgent == after.urgentRescues - before.urgentRescues
            warning == after.warningRescues - before.warningRescues
            base == 100 * critical + 50 * urgent + 25 * warning
            full == /\ pc' = "reviews"
                    /\ node'.state \in {"APPROVED", "CHANGES_REQUESTED"}
        IN /\ {critical, urgent, warning} = {0, 1}
           /\ critical + urgent + warning = 1
           /\ after.points - before.points =
                 IF full THEN base ELSE base \div 2
      ]_vars

\* a COMMENTED review was credited as a warning rescue with 12 points
C9_Witness ==
    /\ op.name = "getRescueLeaderboard"
    /\ pc = "reviews"
    /\ node.author = "bob"
    /\ node.state = "COMMENTED"
    /\ served.events = 1
    /\ RescuerOf(leaderboard, "bob").warningRescues = 1
    /\ RescuerOf(leaderboard, "bob").points = 12

\* C10 (as claimed): the review credited for a PR and an actor is the actor's
\* first review node of that PR with ageAtAction >= minAge: such a node is
\* credited exactly when no earlier review node of the actor on the PR had
\* ageAtAction >= minAge, and no other review node is credited.
C10_FirstQualifyingReview ==
    [][ReviewIterated /\ op.name = "getRescueLeaderboard"
            /\ node'.author # Null =>
        (Credited <=>
            /\ AgeOfIterated >= op.minAge * MsOfUnit
            /\ node'.author \notin pr.rescuableBy)
      ]_vars

\* C11 (as claimed): with countComments enabled, a plain comment of an actor
\* with ageAtAction >= minAge is credited unless the actor was already
\* credited for that PR (by a counted review, or by an earlier plain
\* comment), and no other plain comment is credited.
C11_CommentCredited ==
    [][CommentIterated /\ op.name = "getRescueLeaderboard"
            /\ node'.author # Null =>
        (Credited <=>
            /\ AgeOfIterated >= op.minAge * MsOfUnit
            /\ node'.author \notin pr.creditedBy)
      ]_vars

----------------------------------------------------------------------------
(* Properties of the results *)

ReviewerPointsHold(stats) ==
    /\ stats.points = 50 * stats.approvals + 30 * stats.changesRequested
                        + 10 * stats.comments + 5 * stats.totalComments
    /\ stats.points >= 0

\* C12: in getLeaderboard every plain-comment node with an author adds 1 to
\* its author's totalComments (and 5 points) whatever was counted before, no
\* other node changes a totalComments, every entry has points = 50*approvals
\* + 30*changesRequested + 10*comments + 5*totalComments >= 0, and the result
\* holds the entries of the leaderboard unchanged.
C12_CommentsAndPoints ==
    [][op'.name = "getLeaderboard" =>
        /\ CommentIterated =>
              LET u == node'.author
              IN /\ \A v \in Users \ {u} :
                        ReviewerOf(leaderboard', v) = ReviewerOf(leaderboard, v)
                 /\ u # Null =>
                        ReviewerOf(leaderboard', u) =
                            [ReviewerOf(leaderboard, u) EXCEPT
                                !.totalComments = @ + 1, !.points = @ + 5]
                 /\ u = Null => leaderboard' = leaderboard
        /\ ReviewIterated =>
              \A v \in Users :
                  ReviewerOf(leaderboard', v).totalComments
                      = ReviewerOf(leaderboard, v).totalComments
        /\ \A i \in 1..Len(leaderboard') : ReviewerPointsHold(leaderboard'[i])
        /\ result'.kind = "fulfilled" =>
              /\ Len(result'.value) = Len(leaderboard')
              /\ \A v \in Users :
                    /\ Has(result'.value, v) <=> Has(leaderboard', v)
                    /\ ReviewerOf(result'.value, v) = ReviewerOf(leaderboard', v)
      ]_vars

\* alice commented twice on the one PR fetched and both comments are counted
C12_Witness ==
    /\ op.name = "getLeaderboard"
    /\ result.kind = "fulfilled"
    /\ served.prs = 1
    /\ \E i \in 1..Len(result.value) :
          /\ result.value[i].username = "alice"
          /\ result.value[i].totalComments = 2
          /\ result.value[i].points = 10

\* the entry shows at least one credit
CreditedOnce(stats) ==
    IF op.name = "getLeaderboard"
    THEN stats.reviewCount + stats.totalComments >= 1
    ELSE stats.rescueCount >= 1

\* C13: the array returned by getLeaderboard and getRescueLeaderboard has
\* a.points >= b.points for every adjacent pair (a, b), and holds one entry
\* for every actor that was credited, no entry without a credit and no two
\* entries of one actor.
C13_SortedOnePerActor ==
    IsBoardOp =>
        /\ \A u \in pr.creditedBy : Has(leaderboard, u)
        /\ result.kind = "fulfilled" =>
              LET r == result.value
              IN /\ \A i \in 1..(Len(r) - 1) : r[i].points >= r[i + 1].points
                 /\ \A i, j \in 1..Len(r) :
                        r[i].username = r[j].username => i = j
                 /\ \A u \in Users : Has(r, u) <=> Has(leaderboard, u)
                 /\ \A u \in pr.creditedBy : Has(r, u)
                 /\ \A i \in 1..Len(r) :
                        r[i].username \in Users /\ CreditedOnce(r[i])

\* bob was credited after alice and with more points: the result puts bob
\* first
C13_Witness ==
    /\ op.name = "getRescueLeaderboard"
    /\ result.kind = "fulfilled"
    /\ Len(leaderboard) = 2
    /\ leaderboard[1].username = "alice"
    /\ Len(result.value) = 2
    /\ result.value[1].username = "bob"
    /\ result.value[1].points > result.value[2].points

----------------------------------------------------------------------------
(* Properties of calculatePRStatus *)

StatusReturned == op.name = "calculatePRStatus" /\ pc = "done"

\* C14: calculatePRStatus returns urgency 'normal' whenever reviewCount > 0,
\* for every age, commentCount and timeUnit; an urgency of warning, urgent
\* or critical is returned only for reviewCount = 0.
C14_ReviewedIsNormal ==
    StatusReturned =>
        /\ pr.reviewCount > 0 => result.value.urgency = "normal"
        /\ result.value.urgency \in {"warning", "urgent", "critical"}
              => pr.reviewCount = 0

\* a PR of 15 days with 2 reviews and no comment is normal
C14_Witness ==
    /\ StatusReturned
    /\ op.timeUnit = "days"
    /\ pr = [age |-> 15, reviewCount |-> 2, commentCount |-> 0]
    /\ result.value = [urgency |-> "normal", message |-> <<"Reviewed">>]

\* the message variants returned when the PR has comments
DiscussedMessages ==
    {"CRITICAL: Discussed but not reviewed for",
     "URGENT: Comments but no review",
     "WARNING: Discussed, no review"}

\* C15: for reviewCount = 0, calculatePRStatus returns critical iff
\* age >= 14 days (6 hours), urgent iff 7 <= age < 14 days (3 <= age < 6
\* hours), warning iff 3 <= age < 7 days (1 <= age < 3 hours) and normal
\* otherwise; in the three elevated tiers the message is the comments
\* variant iff commentCount > 0; 0 reviews, 3 comments and 10 days give
\* urgent with the comments variant.
C15_TierOfUnreviewed ==
    StatusReturned /\ pr.reviewCount = 0 =>
        LET hours == op.timeUnit = "hours"
            critical == IF hours THEN 6 ELSE 14
            urgent == IF hours THEN 3 ELSE 7
            warning == IF hours THEN 1 ELSE 3
            status == result.value
        IN /\ status.urgency = "critical" <=> pr.age >= critical
           /\ status.urgency = "urgent"
                <=> (urgent <= pr.age /\ pr.age < critical)
           /\ status.urgency = "warning"
                <=> (warning <= pr.age /\ pr.age < urgent)
           /\ status.urgency = "normal" <=> pr.age < warning
           /\ status.urgency # "normal" =>
                (status.message[1] \in DiscussedMessages
                    <=> pr.commentCount > 0)
           /\ (~hours /\ pr.age = 10 /\ pr.commentCount = 3) =>
                status = [urgency |-> "urgent",
                          message |-> <<"URGENT: Comments but no review">>]

\* 0 reviews, 3 comments, 10 days: urgent, comments variant
C15_Witness ==
    /\ StatusReturned
    /\ op.timeUnit = "days"
    /\ pr = [age |-> 10, reviewCount |-> 0, commentCount |-> 3]
    /\ result.value.urgency = "urgent"
    /\ result.value.message = <<"URGENT: Comments but no review">>

----------------------------------------------------------------------------
(* Properties of getTop10MostNeglectedPRs and fetchStalePRs *)

\* the rank of an urgency
UrgencyRank(urgency) ==
    CASE urgency = "critical" -> 4
      [] urgency = "urgent" -> 3
      [] urgency = "warning" -> 2
      [] urgency = "normal" -> 1

\* a ranks strictly before b
RanksBefore(a, b) ==
    \/ UrgencyRank(a.status.urgency) > UrgencyRank(b.status.urgency)
    \/ /\ a.status.urgency = b.status.urgency
       /\ a.ageDays > b.ageDays

\* C16: getTop10MostNeglectedPRs returns min(10, number of stale PRs)
\* entries, each a stale PR with its age and status, no later entry ranking
\* strictly before an earlier one (urgency rank descending, then age
\* descending), and no stale PR left out ranking strictly before an entry.
C16_Top10Ranked ==
    op.name = "getTop10MostNeglectedPRs" /\ pc = "done" =>
        LET r == result.value
            all == [k \in 1..Len(stalePRs) |->
                        PRWithStatus(stalePRs[k], now, op.timeUnit)]
        IN /\ Len(r) <= 10
           /\ Len(r) = IF Len(all) < 10 THEN Len(all) ELSE 10
           /\ \A i, j \in 1..Len(r) :
                 /\ i < j => ~RanksBefore(r[j], r[i])
                 /\ r[i].number = r[j].number => i = j
           /\ \A i \in 1..Len(r) : \E k \in 1..Len(all) : r[i] = all[k]
           /\ \A k \in 1..Len(all) :
                 (\A i \in 1..Len(r) : r[i].number # all[k].number)
                    => \A i \in 1..Len(r) : ~RanksBefore(all[k], r[i])

\* 11 stale PRs in hours mode, the source's first among the 10 oldest: the
\* result has 10 entries, starts with an older PR than the source's first,
\* and a younger PR is left out
C16_Witness ==
    /\ op.name = "getTop10MostNeglectedPRs" /\ pc = "done"
    /\ op.timeUnit = "hours"
    /\ Len(stalePRs) = 11
    /\ Len(result.value) = 10
    /\ result.value[1].number # 1
    /\ result.value[1].ageDays > result.value[10].ageDays
    /\ \E k \in 1..11 :
          /\ \A i \in 1..10 : result.value[i].number # stalePRs[k].number
          /\ stalePRs[k].createdAt = now - 3 * MsPerDay

\* a step that iterates one PR node of the stale query
StaleIterated == pc' = "nodes" /\ served'.prs = served.prs + 1

\* C17: fetchStalePRs appends a fetched PR to its list exactly when the PR's
\* age is >= staleTime in timeUnit and, with onlyUnreviewed, it has no
\* review; the PR is appended at the end (source order kept, across pages)
\* with reviewCount and commentCount the lengths of its review and comment
\* lists; nothing else changes the list, and the list is what is returned.
C17_StaleSelection ==
    [][op'.name = "fetchStalePRs" /\ pc' # "failed" =>
        /\ StaleIterated =>
              LET kept ==
                    /\ now - pr'.createdAt >= op.minAge * MsOfUnit
                    /\ op.onlyUnreviewed => Len(pr'.reviews) = 0
              IN stalePRs' =
                    IF kept
                    THEN Append(stalePRs,
                                [number |-> pr'.number,
                                 createdAt |-> pr'.createdAt,
                                 reviewCount |-> Len(pr'.reviews),
                                 commentCount |-> Len(pr'.comments)])
                    ELSE stalePRs
        /\ ~StaleIterated => stalePRs' = stalePRs
        /\ result'.kind = "fulfilled" => result'.value = stalePRs'
      ]_vars

\* two PRs were fetched over two pages with onlyUnreviewed; the first was
\* left out, the second is returned with its two comments
C17_Witness ==
    /\ op.name = "fetchStalePRs" /\ pc = "done"
    /\ op.onlyUnreviewed
    /\ served.prs = 2
    /\ requests = 2
    /\ Len(result.value) = 1
    /\ result.value[1].number = 2
    /\ result.value[1].commentCount = 2
    /\ result.value[1].reviewCount = 0

----------------------------------------------------------------------------
(* Properties of whole runs *)

\* C18: when the first page holds no PR and has hasNextPage false,
\* getLeaderboard, getRescueLeaderboard and getTop10MostNeglectedPRs resolve
\* to an empty array after exactly one request, without an error (the
\* promise of getTop10MostNeglectedPRs is pending until the caller has gone
\* on after its await, and settles to nothing else).
C18_EmptySourceEmptyResult ==
    ( /\ op.name \in {"getLeaderboard", "getRescueLeaderboard",
                      "getTop10MostNeglectedPRs"}
      /\ served.pages = <<FALSE>>
      /\ served.prs = 0 )
    => /\ IF pc = "returned"
          THEN op.name = "getTop10MostNeglectedPRs" /\ result = Pending
          ELSE pc = "done" /\ result = [kind |-> "fulfilled", value |-> <<>>]
       /\ requests = 1
       /\ served.error = Null

\* getTop10MostNeglectedPRs has resolved to [] on an empty single page
C18_Witness ==
    /\ op.name = "getTop10MostNeglectedPRs"
    /\ served.pages = <<FALSE>>
    /\ served.prs = 0
    /\ pc = "done"
    /\ result.kind = "fulfilled"
    /\ result.value = <<>>
    /\ requests = 1

\* C19: getTopReviewers(N) and getTopRescuers(N, ...) return the first
\* min(N, length) entries of the sorted leaderboard in the same order: at
\* most N entries, and no actor left out has more points than one returned.
C19_TopN ==
    IsTopCall /\ pc = "done" =>
        LET sorted == SortByPoints(leaderboard)
            r == result.value
        IN /\ result.kind = "fulfilled"
           /\ Len(r) <= op.limit
           /\ Len(r) = IF op.limit < Len(sorted) THEN op.limit ELSE Len(sorted)
           /\ \A i \in 1..Len(r) : r[i] = sorted[i]
           /\ \A k \in 1..Len(leaderboard) :
                 ~Has(r, leaderboard[k].username)
                    => \A i \in 1..Len(r) :
                          leaderboard[k].points <= r[i].points

\* getTopRescuers(1, ...) with two rescuers: the one credited second has more
\* points and is the one returned
C19_Witness ==
    /\ op.caller = "getTopRescuers" /\ pc = "done"
    /\ op.limit = 1
    /\ Len(leaderboard) = 2
    /\ Len(result.value) = 1
    /\ result.value[1].username = leaderboard[2].username
    /\ result.value[1].points > leaderboard[1].points

\* requests of the run that have not been answered yet
InFlight ==
    requests - Len(served.pages)
        - (IF pc \in {"nodes", "reviews", "comments"} THEN 1 ELSE 0)
        - (IF served.error # Null THEN 1 ELSE 0)

\* C20: the page requests of a run are sequential: a request is issued only
\* when none is in flight and every earlier response has been received and
\* processed; the first carries cursor null, every later one the endCursor
\* of the response just processed (whose hasNextPage was true); at no time
\* are two requests in flight.
C20_SequentialRequests ==
    [][/\ requests' # requests =>
            /\ requests' = requests + 1
            /\ InFlight = 0 /\ pc # "await"
            /\ pc' = "await"
            /\ Len(served'.pages) = requests
            /\ cursor' = IF requests = 0 THEN Null ELSE res'[1].endCursor
            /\ requests > 0 => res'[1].hasNextPage
       /\ InFlight' \in {0, 1}
       /\ InFlight' = 1 <=> pc' = "await"
      ]_vars

\* the third request is in flight, with the endCursor of the second response
C20_Witness ==
    /\ pc = "await"
    /\ requests = 3
    /\ Len(served.pages) = 2
    /\ cursor = "c2"
    /\ res = <<[hasNextPage |-> TRUE, endCursor |-> "c2"]>>

----------------------------------------------------------------------------
(* Events without author, dispositions outside the known ones *)

\* C22: in getLeaderboard and getRescueLeaderboard a review or comment node
\* whose author is null changes no entry and creates none, marks no actor
\* as counted for the PR (reviewedUsers and commentedUsers are unchanged),
\* and the run goes on in the same loop, with no result and no error yet.
C22_NullAuthorDropped ==
    [][(ReviewIterated \/ CommentIterated) /\ IsBoardOp /\ node'.author = Null =>
        /\ leaderboard' = leaderboard
        /\ reviewedUsers' = reviewedUsers
        /\ commentedUsers' = commentedUsers
        /\ Null \notin reviewedUsers' \cup commentedUsers'
        /\ \A i \in 1..Len(leaderboard') : leaderboard'[i].username # Null
        /\ pc' = pc
        /\ result' = Pending
        /\ served'.error = Null
      ]_vars

\* after alice's review was counted, a review node without author was
\* iterated in the same PR
C22_Witness ==
    /\ IsBoardOp
    /\ pc = "reviews"
    /\ node.author = Null
    /\ served.events = 2
    /\ reviewedUsers = {"alice"}
    /\ Len(leaderboard) = 1
    /\ leaderboard[1].username = "alice"

KnownStates == {"APPROVED", "CHANGES_REQUESTED", "COMMENTED"}

\* C23: a review node whose state is none of APPROVED, CHANGES_REQUESTED,
\* COMMENTED leaves the run in the state a COMMENTED review of the same
\* author and time would, with no error: counted by getLeaderboard it adds 1
\* to reviewCount, 1 to comments and 10 points; credited by
\* getRescueLeaderboard it adds 1 to comments and the floor of half the base
\* of its tier (50, 25, 12) to points.
C23_UnknownStateAsCommented ==
    [][ReviewIterated /\ IsBoardOp /\ node'.author # Null
            /\ node'.state \notin KnownStates =>
        LET commented == [node' EXCEPT !.state = "COMMENTED"]
            before == IF op.name = "getLeaderboard"
                      THEN ReviewerOf(leaderboard, node'.author)
                      ELSE RescuerOf(leaderboard, node'.author)
            after == IF op.name = "getLeaderboard"
                     THEN ReviewerOf(leaderboard', node'.author)
                     ELSE RescuerOf(leaderboard', node'.author)
        IN /\ result' = Pending /\ served'.error = Null /\ pc' = pc
           /\ op.name = "getLeaderboard" =>
                /\ leaderboard' =
                      LeaderboardReview(leaderboard, reviewedUsers,
                                        commented).leaderboard
                /\ leaderboard' # leaderboard =>
                      after = [before EXCEPT !.reviewCount = @ + 1,
                                             !.comments = @ + 1,
                                             !.points = @ + 10]
           /\ op.name = "getRescueLeaderboard" =>
                /\ leaderboard' =
                      RescueReview(leaderboard, reviewedUsers, pr.createdAt,
                                   commented, op.minAge,
                                   op.timeUnit).leaderboard
                /\ leaderboard' # leaderboard =>
                      /\ after.comments = before.comments + 1
                      /\ after.approvals = before.approvals
                      /\ after.changesRequested = before.changesRequested
                      /\ after.points - before.points =
                            (100 * (after.criticalRescues - before.criticalRescues)
                             + 50 * (after.urgentRescues - before.urgentRescues)
                             + 25 * (after.warningRescues - before.warningRescues))
                                \div 2
      ]_vars

\* a DISMISSED review 14 days after creation was credited by
\* getRescueLeaderboard with 50 points and counted in comments
C23_Witness ==
    /\ op.name = "getRescueLeaderboard"
    /\ pc = "reviews"
    /\ node.author = "alice"
    /\ node.state = "DISMISSED"
    /\ served.events = 1
    /\ RescuerOf(leaderboard, "alice").criticalRescues = 1
    /\ RescuerOf(leaderboard, "alice").comments = 1
    /\ RescuerOf(leaderboard, "alice").points = 50

----------------------------------------------------------------------------
(* Counters of getRescueLeaderboard *)

DispositionSumHolds(stats) ==
    stats.approvals + stats.changesRequested + stats.comments
        = stats.rescueCount

\* C26: every entry of getRescueLeaderboard, while it is built and in the
\* result, has approvals + changesRequested + comments = rescueCount; a
\* credited APPROVED review adds 1 to approvals only, a credited
\* CHANGES_REQUESTED review 1 to changesRequested only, any other credited
\* review and any credited plain comment 1 to comments only.
C26_DispositionMirror ==
    [][op'.name = "getRescueLeaderboard" =>
        /\ \A i \in 1..Len(leaderboard') : DispositionSumHolds(leaderboard'[i])
        /\ result'.kind = "fulfilled" =>
              \A i \in 1..Len(result'.value) :
                  DispositionSumHolds(result'.value[i])
        /\ (ReviewIterated \/ CommentIterated) /\ Credited =>
              LET before == RescuerOf(leaderboard, node'.author)
                  after == RescuerOf(leaderboard', node'.author)
                  kind == IF pc' = "comments" THEN "COMMENTED"
                          ELSE IF node'.state \in {"APPROVED", "CHANGES_REQUESTED"}
                          THEN node'.state ELSE "COMMENTED"
                  plus(state) == IF kind = state THEN 1 ELSE 0
              IN /\ after.approvals = before.approvals + plus("APPROVED")
                 /\ after.changesRequested =
                        before.changesRequested + plus("CHANGES_REQUESTED")
                 /\ after.comments = before.comments + plus("COMMENTED")
      ]_vars

\* a result whose entry counts a DISMISSED review and an APPROVED review
C26_Witness ==
    /\ op.name = "getRescueLeaderboard"
    /\ result.kind = "fulfilled"
    /\ Len(result.value) = 1
    /\ result.value[1].rescueCount = 2
    /\ result.value[1].approvals = 1
    /\ result.value[1].comments = 1
    /\ served.events = 2
    /\ pr.reviewsBy = {result.value[1].username}

\* C27: getRescueLeaderboard credits an actor at most once per PR: a step
\* credits only the author of the node it iterates, by exactly one rescue,
\* and only if nothing (review or plain comment) was credited to that actor
\* on the PR before; so a rescueCount never exceeds the number of PRs
\* fetched; and with countComments false no plain comment is credited.
C27_OneRescuePerPR ==
    [][op'.name = "getRescueLeaderboard" =>
        /\ Credited /\ pc' # "failed" =>
              /\ ReviewIterated \/ CommentIterated
              /\ node'.author \in Users
              /\ node'.author \notin pr.creditedBy
              /\ RescuerOf(leaderboard', node'.author).rescueCount =
                    RescuerOf(leaderboard, node'.author).rescueCount + 1
              /\ \A u \in Users \ {node'.author} :
                    RescuerOf(leaderboard', u) = RescuerOf(leaderboard, u)
              /\ pc' = "comments" => op.countComments
        /\ ~op'.countComments => pc' # "comments"
        /\ \A i \in 1..Len(leaderboard') :
              leaderboard'[i].rescueCount <= served'.prs
      ]_vars

\* alice was credited for her review of the PR; her comment on the same PR,
\* old enough to qualify, was iterated and not credited
C27_Witness ==
    /\ op.name = "getRescueLeaderboard"
    /\ op.minAge = 7 /\ op.timeUnit = "days" /\ op.countComments
    /\ pc = "comments"
    /\ node.author = "alice"
    /\ node.createdAt - pr.createdAt = 14 * MsPerDay
    /\ served.prs = 1 /\ served.events = 2
    /\ pr.creditedBy = {"alice"}
    /\ RescuerOf(leaderboard, "alice").rescueCount = 1

----------------------------------------------------------------------------
(* calculatePRStatus as a function of the age *)

\* C28: calculatePRStatus is monotone in age: with reviewCount, commentCount
\* and timeUnit fixed, the rank (normal 1 < warning 2 < urgent 3 <
\* critical 4) of the status returned for an age is not above the rank
\* returned for any larger age, and not below the one for any smaller age.
C28_MonotoneInAge ==
    StatusReturned =>
        \A age2 \in 0..MaxStatusAge :
            LET rank == UrgencyRank(result.value.urgency)
                otherRank ==
                    UrgencyRank(calculatePRStatus(age2, pr.reviewCount,
                                    pr.commentCount, op.timeUnit).urgency)
            IN /\ pr.age <= age2 => rank <= otherRank
               /\ age2 <= pr.age => otherRank <= rank

\* an unreviewed PR of 8 days is urgent: above the warning returned for 3
\* days, below the critical returned for 14
C28_Witness ==
    /\ StatusReturned
    /\ op.timeUnit = "days"
    /\ pr = [age |-> 8, reviewCount |-> 0, commentCount |-> 1]
    /\ result.value.urgency = "urgent"
    /\ calculatePRStatus(3, 0, 1, "days").urgency = "warning"
    /\ calculatePRStatus(14, 0, 1, "days").urgency = "critical"

----------------------------------------------------------------------------
(* Runs interleaved on one instance *)

\* the run r has the accumulators, cursor and page counter it has alone,
\* and, once resolved, the result it has alone
AsAlone(r) ==
    r.op.name \in {"getLeaderboard", "getRescueLeaderboard"} =>
        /\ r.leaderboard = r.alone.leaderboard
        /\ r.reviewedUsers = r.alone.reviewedUsers
        /\ r.commentedUsers = r.alone.commentedUsers
        /\ r.cursor = r.alone.cursor
        /\ r.pagesFetched = r.alone.pagesFetched
        /\ r.pc = "done" =>
              /\ r.result =
                    [kind |-> "fulfilled",
                     value |->
                        IF r.op.caller = "getTopReviewers"
                        THEN Slice(SortByPoints(r.alone.leaderboard),
                                   r.op.limit)
                        ELSE SortByPoints(r.alone.leaderboard)]
              /\ r.requests = Len(r.served.pages)

\* C21: when two runs of getLeaderboard and getRescueLeaderboard (of the
\* same or of different operations) on one instance are interleaved at
\* their awaits in any order, each run has at every moment the Map, Sets,
\* cursor and pagesFetched it would have on its own page responses alone,
\* and resolves to the result it would return alone.
C21_RunsIndependent == AsAlone(Executing) /\ AsAlone(other)

\* a getRescueLeaderboard run that credited alice on its first page is
\* suspended at its second request while a getLeaderboard run, started
\* after it, has counted bob's review
C21_Witness ==
    /\ other.op.name = "getRescueLeaderboard"
    /\ other.pc = "await"
    /\ other.requests = 2
    /\ Has(other.leaderboard, "alice")
    /\ op.name = "getLeaderboard"
    /\ pc = "reviews"
    /\ Has(leaderboard, "bob")
    /\ ~Has(leaderboard, "alice")

----------------------------------------------------------------------------
(* Properties of RescueStatsService *)

\* the statistics in localStorage, those of a new user when none is stored
StoredStats(storage) ==
    IF storage.pr_rescue_stats = <<>> THEN NewRescueStats
    ELSE storage.pr_rescue_stats[1]

StreaksOrdered(stats) ==
    stats.longestStreak >= stats.currentStreak /\ stats.currentStreak >= 0

\* C29: after any sequence of recordRescue, checkStreak and getStats with
\* the calendar day advancing between the calls, the stored statistics (and
\* the ones getStats and recordRescue return) have longestStreak >=
\* currentStreak >= 0; right after a recordRescue currentStreak >= 1 and
\* totalRescues is one more than before the call.
C29_StreakBounds ==
    [][/\ StreaksOrdered(StoredStats(localStorage'))
       /\ op'.name \in {"recordRescue", "getStats"} =>
              StreaksOrdered(result'.value)
       /\ op'.name = "recordRescue" /\ localStorage' # localStorage =>
              /\ StoredStats(localStorage').currentStreak >= 1
              /\ StoredStats(localStorage').totalRescues =
                    StoredStats(localStorage).totalRescues + 1
              /\ result'.value = StoredStats(localStorage')
      ]_vars

\* a streak of two days was broken and reset by checkStreak; the rescue
\* recorded after that starts a new streak of 1 below the longest of 2
C29_Witness ==
    /\ op.name = "recordRescue"
    /\ StoredStats(localStorage).totalRescues = 3
    /\ StoredStats(localStorage).currentStreak = 1
    /\ StoredStats(localStorage).longestStreak = 2
    /\ StoredStats(localStorage).lastRescueDate = <<getTodayString(now)>>

----------------------------------------------------------------------------
(* Properties of GitHubActivityTracker.syncXP *)

\* the XP in localStorage, that of a new user when none is stored
StoredXP(storage) ==
    IF storage.user_xp = <<>> THEN 0 ELSE storage.user_xp[1].currentXP

\* the stats the sync found are those of the snapshot saved before it
SyncedUnchanged ==
    /\ op.name = "syncXP" /\ pc = "await" /\ pc' = "done"
    /\ res'[1].kind = "found"
    /\ getLastSnapshot(localStorage, "alice") # <<>>
    /\ \A k \in 1..Len(SyncOrder) :
          res'[1].stats[SyncOrder[k].counter] =
              getLastSnapshot(localStorage, "alice")[1][SyncOrder[k].counter]

\* C30 (as claimed): over any sequence of syncXP calls for one user, the
\* awards granted for an XP action never exceed the largest value of its
\* counter that GitHub reported in those calls; a sync whose reported stats
\* equal the saved snapshot returns xpGained = 0 and leaves the stored XP
\* as it was.
C30_AwardsOnlyNew ==
    [][/\ \A a \in XPActions : ledger'.granted[a] <= ledger'.reported[a]
       /\ SyncedUnchanged =>
              /\ result'.value.xpGained = 0
              /\ StoredXP(localStorage') = StoredXP(localStorage)
      ]_vars

----------------------------------------------------------------------------
(* Properties of the REST GithubService *)

\* C24 (as claimed): every entry returned by fetchPRsWithoutActivitySince
\* has ageDays >= minAgeDays, hasReviews = false and an empty reviews list,
\* and is an open PR that has no APPROVED or CHANGES_REQUESTED review and
\* no comment at the source, also when review or comment requests fail.
C24_NoActivityAtSource ==
    (rest.name = "fetchPRsWithoutActivitySince" /\ rest.pc = "done") =>
        \A i \in 1..Len(result.value) :
            LET e == result.value[i]
            IN /\ e.ageDays >= rest.minAgeDays
               /\ e.hasReviews = FALSE
               /\ e.reviews = <<>>
               /\ e.pr.state = "open"
               /\ meaningfulReviews(e.pr.sourceReviews) = <<>>
               /\ e.pr.sourceComments = <<>>

\* C25 (as claimed): every entry of the result of getReviewerStats has
\* reviewCount = approvals + changesRequested + comments, whatever the
\* states of the reviews.
C25_ReviewCountIsSum ==
    (rest.name = "getReviewerStats" /\ rest.pc = "done") =>
        \A i \in 1..Len(result.value) :
            LET e == result.value[i]
            IN e.reviewCount = e.approvals + e.changesRequested + e.comments

====
